---- MODULE Spec2Model ----
(***************************************************************************)
(* A model of the SQL JOIN-order analyzer of analyze_join_order.py, of     *)
(* DataQualityValidator.run_validation of data_quality_validator.py and    *)
(* of the QueryVerificationFramework of query_verification_script.py.      *)
(*                                                                         *)
(* A Python str is modelled as a sequence of one-character strings, so     *)
(* that the regular expressions and the str methods of the source are      *)
(* computed character by character.  Python's None is the empty sequence   *)
(* wherever the source can only hold None or a non-empty str (cte_name,    *)
(* issue, suggested_order).  The enumerated values the source writes as    *)
(* literals (size categories, priorities, fixed messages) are TLA+ strings.*)
(***************************************************************************)
EXTENDS Integers, Sequences, FiniteSets, TLC

VARIABLES
    sql_file,            \* the text of the file at sql_file_path
    context_file,        \* the text of the file at context_file_path
    sql_content,         \* self.sql_content
    context_content,     \* self.context_content
    table_context_info,  \* self.table_context_info: name -> [size_hint, has_description]
    joins,               \* self.joins: sequence of JoinClause
    tables,              \* self.tables: name -> TableInfo
    pc,                  \* where the run of the analyzer stands
    lines,               \* parse_joins: the local list `lines`
    current_cte,         \* parse_joins: the local `current_cte`
    i,                   \* parse_joins: lines consumed so far (the next line is i + 1)
    parses,              \* completed parse_joins calls
    recommendations,     \* what the last analyze_join_order call returned
    table_reference,     \* argument of a direct extract_table_name call
    table_name,          \* what that call returned
    files,               \* the file system: whether each file can be read or written
    args,                \* main: the parsed command line (format "none": no main)
    stdout,              \* the kinds of the messages printed so far
    exit_status,         \* the exit status of the process, "running" until it ends
    in_report,           \* whether generate_report is running (its calls are steps)
    validation_level,    \* DataQualityValidator: self.validation_level
    method_idx,          \* run_validation: entries of validation_methods passed over
    all_issues,          \* run_validation: the local list `all_issues`
    validation_log,      \* run_validation: per check run, what it printed
    summary,             \* what run_validation returned (None before)
    environment,         \* QueryVerificationFramework: SQL file, DB settings, hash seed, clock
    query_content,       \* self.query_content (None while unset)
    logger,              \* whether self.logger is set
    has_db_connection,   \* self.has_db_connection
    verification_results,\* self.verification_results
    scenario_idx,        \* run_verification_suite: scenarios passed over
    suite_calls,         \* completed run_verification_suite calls
    comparison           \* what the last compare_results_across_periods returned

vars == <<sql_file, context_file, sql_content, context_content, table_context_info,
          joins, tables, pc, lines, current_cte, i, parses, recommendations,
          table_reference, table_name, files, args, stdout, exit_status, in_report,
          validation_level, method_idx, all_issues, validation_log, summary,
          environment, query_content, logger, has_db_connection, verification_results,
          scenario_idx, suite_calls, comparison>>

\* What only main and the file operations change.
process_vars == <<files, args, stdout, exit_status, in_report>>

\* The state of a JoinOrderAnalyzer and of the calls made on it.
analyzer_vars == <<sql_file, context_file, sql_content, context_content,
                   table_context_info, joins, tables, lines, current_cte, i, parses,
                   recommendations, table_reference, table_name>>

\* The state of a DataQualityValidator and of its run_validation call.
validator_vars == <<validation_level, method_idx, all_issues, validation_log, summary>>

\* The state of a QueryVerificationFramework and of its environment.
framework_vars == <<environment, query_content, logger, has_db_connection,
                    verification_results, scenario_idx, suite_calls, comparison>>

None == <<>>

---------------------------------------------------------------------------
(* Characters and the str methods the source uses.                         *)

WS == {" ", "\t", "\n"}
UpperSeq == <<"A","B","C","D","E","F","G","H","I","J","K","L","M",
              "N","O","P","Q","R","S","T","U","V","W","X","Y","Z">>
LowerSeq == <<"a","b","c","d","e","f","g","h","i","j","k","l","m",
              "n","o","p","q","r","s","t","u","v","w","x","y","z">>
Digits == {"0","1","2","3","4","5","6","7","8","9"}
UpperLetters == {UpperSeq[k] : k \in 1..26}
LowerLetters == {LowerSeq[k] : k \in 1..26}
LowerOf == [c \in UpperLetters |-> LowerSeq[CHOOSE k \in 1..26 : UpperSeq[k] = c]]
UpperOf == [c \in LowerLetters |-> UpperSeq[CHOOSE k \in 1..26 : LowerSeq[k] = c]]

\* \w
WordChars == UpperLetters \cup LowerLetters \cup Digits \cup {"_"}

Min(S) == CHOOSE x \in S : \A y \in S : x <= y

\* \s
IsSpace(c) == c \in WS
IsWord(c) == c \in WordChars

LowerChar(c) == IF c \in UpperLetters THEN LowerOf[c] ELSE c
UpperChar(c) == IF c \in LowerLetters THEN UpperOf[c] ELSE c

\* str.lower(), str.upper()
lower(s) == [k \in 1..Len(s) |-> LowerChar(s[k])]
upper(s) == [k \in 1..Len(s) |-> UpperChar(s[k])]

\* The last position of the longest run of characters of the class C that
\* starts at p (p - 1 when s[p] is not in C): a greedy [C]* at p.
RunEnd(s, p, C) ==
    LET stops == {k \in p..Len(s) : s[k] \notin C}
    IN  IF p < 1 THEN p - 1 ELSE IF stops = {} THEN Len(s) ELSE Min(stops) - 1

\* The same for the complement of C: a greedy [^C]* at p.
RunEndNot(s, p, C) ==
    LET stops == {k \in p..Len(s) : s[k] \in C}
    IN  IF p < 1 THEN p - 1 ELSE IF stops = {} THEN Len(s) ELSE Min(stops) - 1

\* The first position of the longest run of characters of C that ends at p
\* (p + 1 when s[p] is not in C), and the same for the complement of C.
RunStart(s, p, C) ==
    LET back == {j \in 0..(p - 1) : s[p - j] \notin C}
    IN  IF p > Len(s) THEN p + 1 ELSE IF back = {} THEN 1 ELSE p - Min(back) + 1

RunStartNot(s, p, C) ==
    LET back == {j \in 0..(p - 1) : s[p - j] \in C}
    IN  IF p > Len(s) THEN p + 1 ELSE IF back = {} THEN 1 ELSE p - Min(back) + 1

\* str.strip()
strip(s) == SubSeq(s, RunEnd(s, 1, WS) + 1, RunStart(s, Len(s), WS) - 1)

\* s.startswith(w)
startswith(s, w) == Len(s) >= Len(w) /\ \A k \in 1..Len(w) : s[k] = w[k]

\* the literal w stands in s at position p
MatchAt(s, p, w) ==
    /\ p >= 1
    /\ p + Len(w) - 1 <= Len(s)
    /\ \A k \in 1..Len(w) : s[p + k - 1] = w[k]

\* the same under re.IGNORECASE
MatchAtCI(s, p, w) ==
    /\ p >= 1
    /\ p + Len(w) - 1 <= Len(s)
    /\ \A k \in 1..Len(w) : LowerChar(s[p + k - 1]) = LowerChar(w[k])

\* The first position from p on at which w stands in s, or 0.
Find(s, p, w) ==
    LET hits == {q \in p..(Len(s) - Len(w) + 1) : MatchAt(s, q, w)}
    IN  IF hits = {} THEN 0 ELSE Min(hits)

FindCI(s, p, w) ==
    LET hits == {q \in p..(Len(s) - Len(w) + 1) : MatchAtCI(s, q, w)}
    IN  IF hits = {} THEN 0 ELSE Min(hits)

\* w in s
Contains(s, w) == \E p \in 1..(Len(s) - Len(w) + 1) : MatchAt(s, p, w)

\* s.split('\n')
RECURSIVE split_lines(_)
split_lines(s) ==
    LET nl == Find(s, 1, <<"\n">>)
    IN  IF nl = 0 THEN <<s>>
        ELSE <<SubSeq(s, 1, nl - 1)>> \o split_lines(SubSeq(s, nl + 1, Len(s)))

\* sep.join(parts)
RECURSIVE join_str(_, _)
join_str(sep, parts) ==
    IF Len(parts) = 0 THEN <<>>
    ELSE IF Len(parts) = 1 THEN parts[1]
    ELSE parts[1] \o sep \o join_str(sep, Tail(parts))

---------------------------------------------------------------------------
(* extract_table_name                                                      *)

\* re.split(r'\s+(?:as\s+)?', s): the separator is a run of whitespace and,
\* when "as" and more whitespace follow it, these as well.
RECURSIVE re_split_alias(_)
re_split_alias(s) ==
    LET a == RunEndNot(s, 1, WS) + 1
    IN  IF a > Len(s) THEN <<s>>
        ELSE LET b == RunEnd(s, a, WS)
                 hasAs == MatchAt(s, b + 1, <<"a","s">>) /\ b + 3 <= Len(s) /\ IsSpace(s[b + 3])
                 e == IF hasAs THEN RunEnd(s, b + 3, WS) ELSE b
             IN  <<SubSeq(s, 1, a - 1)>> \o re_split_alias(SubSeq(s, e + 1, Len(s)))

\* s.split('.')[-1]
after_last_dot(s) == SubSeq(s, RunStartNot(s, Len(s), {"."}), Len(s))

\* A faulty extract_table_name that keeps the schema prefix.
extract_table_name_keep_schema(reference) ==
    re_split_alias(lower(strip(reference)))[1]

extract_table_name(reference) ==
    LET stripped == strip(reference)
        parts == re_split_alias(lower(stripped))
        table_part == parts[1]
    IN  IF Contains(table_part, <<".">>) THEN after_last_dot(table_part) ELSE table_part

---------------------------------------------------------------------------
(* categorize_table_size                                                   *)

large_table_patterns ==
    << <<"f","a","c","t">>,
       <<"o","r","d","e","r","_","c","o","n","t","r","i","b","u","t","i","o","n","_","p","r","o","f","i","t","_","f","a","c","t">>,
       <<"m","a","n","a","g","e","d","_","d","e","l","i","v","e","r","y","_","f","a","c","t","_","v","2">>,
       <<"t","i","c","k","e","t","_","f","a","c","t">>,
       <<"o","r","d","e","r","_","c","a","n","c","e","l","l","a","t","i","o","n","_","f","a","c","t">>,
       <<"a","d","j","u","s","t","m","e","n","t","_","r","e","p","o","r","t","i","n","g">>,
       <<"c","o","n","c","e","s","s","i","o","n","_","r","e","p","o","r","t","i","n","g">>,
       <<"g","u","a","r","a","n","t","e","e","_","c","l","a","i","m">>,
       <<"c","a","n","c","e","l","l","a","t","i","o","n","_","r","e","s","u","l","t">> >>

medium_table_patterns == << <<"c","a","n","c","e","l","l","a","t","i","o","n","_","r","e","a","s","o","n","_","m","a","p">> >>

small_table_patterns ==
    << <<"p","r","i","m","a","r","y","_","c","o","n","t","a","c","t","_","r","e","a","s","o","n">>,
       <<"s","e","c","o","n","d","a","r","y","_","c","o","n","t","a","c","t","_","r","e","a","s","o","n">>,
       <<"c","a","r","e","_","c","o","s","t","_","r","e","a","s","o","n","s">> >>

cte_aliases ==
    { <<"a","d","j">>, <<"g","h","g">>, <<"c","a","r","e","_","f","g">>, <<"d","i","n","e","r","_","s","s","_","c","a","n","c","e","l","s">>, <<"c","a","n","c","e","l","s">>,
      <<"m","d","f">>, <<"c","o","n","t","a","c","t","s">>, <<"o">>, <<"o","2">>, <<"o","3">> }

AnyPatternIn(patterns, s) == \E k \in 1..Len(patterns) : Contains(s, patterns[k])

\* The lookup of the context hint: the key is the argument as passed.
context_size_hint(name) ==
    IF name \in DOMAIN table_context_info THEN table_context_info[name].size_hint ELSE ""

categorize_table_size(name) ==
    LET table_lower == lower(name)
        size_hint == context_size_hint(name)
    IN  IF size_hint # "" THEN size_hint
        ELSE IF AnyPatternIn(large_table_patterns, table_lower) THEN "large"
        ELSE IF AnyPatternIn(medium_table_patterns, table_lower) THEN "medium"
        ELSE IF AnyPatternIn(small_table_patterns, table_lower) THEN "small"
        ELSE IF Contains(table_lower, <<"i","n","t","e","g","r","a","t","e","d","_">>) /\ Contains(table_lower, <<"f","a","c","t">>)
             THEN "large"
        ELSE IF Contains(table_lower, <<"i","n","t","e","g","r","a","t","e","d","_">>) THEN "medium"
        ELSE IF /\ Contains(table_lower, <<"s","o","u","r","c","e","_">>)
                /\ (Contains(table_lower, <<"r","e","p","o","r","t","i","n","g">>) \/ Contains(table_lower, <<"f","a","c","t">>))
             THEN "large"
        ELSE IF Contains(table_lower, <<"s","o","u","r","c","e","_">>) THEN "medium"
        ELSE IF Contains(table_lower, <<"r","e","f">>) \/ Contains(table_lower, <<"r","e","f","e","r","e","n","c","e">>)
             THEN "small"
        ELSE IF Contains(table_lower, <<"o","d","s",".">>) THEN "large"
        ELSE IF table_lower \in cte_aliases THEN "derived"
        ELSE "unknown"

---------------------------------------------------------------------------
(* _parse_context_info                                                     *)

table_info_patterns ==
    << [kw |-> <<"C","o","n","t","a","i","n","s">>,        info_type |-> "description"],
       [kw |-> <<"f","a","c","t"," ","t","a","b","l","e">>,      info_type |-> "large"],
       [kw |-> <<"r","e","f","e","r","e","n","c","e"," ","t","a","b","l","e">>, info_type |-> "small"],
       [kw |-> <<"d","i","m","e","n","s","i","o","n">>,       info_type |-> "medium"],
       [kw |-> <<"l","o","o","k","u","p">>,          info_type |-> "small"] >>

\* r'(\w+\.[\w_]+)\s+.*KW.*' under re.IGNORECASE, tried at position p only.
\* Both name parts are maximal runs (a '.', then whitespace, must follow);
\* '.' does not match a newline, so KW stands on the line on which the
\* whitespace run ends, and the match extends to the end of that line.
context_match_at(s, p, kw) ==
    LET e1 == RunEnd(s, p, WordChars)
        e2 == RunEnd(s, e1 + 2, WordChars)
        b  == RunEnd(s, e2 + 1, WS)
        lineEnd == RunEndNot(s, b + 1, {"\n"})
        ok == /\ e1 >= p
              /\ MatchAt(s, e1 + 1, <<".">>)
              /\ e2 >= e1 + 2
              /\ b >= e2 + 1
              /\ FindCI(SubSeq(s, 1, lineEnd), b + 1, kw) # 0
    IN  [ok |-> ok, group |-> IF ok THEN SubSeq(s, p, e2) ELSE None, end |-> lineEnd]

\* re.findall: the leftmost match from pos, then again from its end.
RECURSIVE context_findall(_, _, _)
context_findall(s, pos, kw) ==
    LET starts == {p \in pos..Len(s) : context_match_at(s, p, kw).ok}
    IN  IF starts = {} THEN <<>>
        ELSE LET m == context_match_at(s, Min(starts), kw)
             IN  <<m.group>> \o context_findall(s, m.end + 1, kw)

\* One pass of the inner loop body: lines 101-107.
context_note(info, match, info_type) ==
    LET name == extract_table_name(match)
        old == IF name \in DOMAIN info THEN info[name]
               ELSE [size_hint |-> "", has_description |-> FALSE]
        new == IF info_type \in {"large", "medium", "small"}
               THEN [old EXCEPT !.size_hint = info_type]
               ELSE IF info_type = "description"
               THEN [old EXCEPT !.has_description = TRUE]
               ELSE old
    IN  [n \in DOMAIN info \cup {name} |-> IF n = name THEN new ELSE info[n]]

RECURSIVE context_notes(_, _, _)
context_notes(info, matches, info_type) ==
    IF matches = <<>> THEN info
    ELSE context_notes(context_note(info, Head(matches), info_type), Tail(matches), info_type)

RECURSIVE context_patterns_from(_, _, _)
context_patterns_from(info, content, k) ==
    IF k > Len(table_info_patterns) THEN info
    ELSE context_patterns_from(
             context_notes(info, context_findall(content, 1, table_info_patterns[k].kw),
                           table_info_patterns[k].info_type),
             content, k + 1)

\* The value of self.table_context_info after the call.
_parse_context_info(info, content) ==
    IF content = <<>> THEN info ELSE context_patterns_from(info, content, 1)

---------------------------------------------------------------------------
(* The regular expressions of parse_joins                                  *)

\* cte_pattern = r'^\s*(\w+)\s+AS\s*\(' (re.IGNORECASE): group(1), or None.
cte_pattern_search(line) ==
    LET p == RunEnd(line, 1, WS) + 1
        e == RunEnd(line, p, WordChars)
        b == RunEnd(line, e + 1, WS)
        c == RunEnd(line, b + 3, WS)
    IN  IF /\ e >= p
           /\ b >= e + 1
           /\ MatchAtCI(line, b + 1, <<"A","S">>)
           /\ MatchAt(line, c + 1, <<"(">>)
        THEN SubSeq(line, p, e)
        ELSE None

join_modifiers == << <<"L","E","F","T">>, <<"R","I","G","H","T">>, <<"I","N","N","E","R">>, <<"F","U","L","L">>, <<"C","R","O","S","S">> >>

\* join_pattern =
\*   r'^\s*((?:LEFT\s+|RIGHT\s+|INNER\s+|FULL\s+|CROSS\s+)?JOIN)\s*(.*)$'
\* (re.IGNORECASE) on a line (which holds no newline).
join_pattern_search(line) ==
    LET p == RunEnd(line, 1, WS) + 1
        modEnd(k) == p + Len(join_modifiers[k]) - 1
        wsEnd(k) == RunEnd(line, modEnd(k) + 1, WS)
        withMod == {k \in 1..Len(join_modifiers) :
                       /\ MatchAtCI(line, p, join_modifiers[k])
                       /\ wsEnd(k) > modEnd(k)
                       /\ MatchAtCI(line, wsEnd(k) + 1, <<"J","O","I","N">>)}
        jstart == IF withMod # {} THEN wsEnd(Min(withMod)) + 1 ELSE p
        matched == MatchAtCI(line, jstart, <<"J","O","I","N">>)
        jend == jstart + 3
        r == RunEnd(line, jend + 1, WS) + 1
    IN  [matched |-> matched,
         group1 |-> IF matched THEN SubSeq(line, p, jend) ELSE None,
         group2 |-> IF matched THEN SubSeq(line, r, Len(line)) ELSE None]

---------------------------------------------------------------------------
(* _find_left_table                                                        *)

\* What [^\s,\)] excludes.
RefStopChars == WS \cup {",", ")"}
\* [a-zA-Z_], [a-zA-Z0-9_], [a-zA-Z0-9_.]
IdentStartChars == UpperLetters \cup LowerLetters \cup {"_"}
IdentChars == IdentStartChars \cup Digits
DottedChars == IdentChars \cup {"."}

\* re.search(r'KW\s+([^\s,\)]+)', line, re.IGNORECASE): group(1) of the
\* leftmost match, or None.
RECURSIVE kw_table_search_from(_, _, _)
kw_table_search_from(line, kw, pos) ==
    LET p == FindCI(line, pos, kw)
        wsEnd == RunEnd(line, p + Len(kw), WS)
        refEnd == RunEndNot(line, wsEnd + 1, RefStopChars)
    IN  IF p = 0 THEN None
        ELSE IF wsEnd >= p + Len(kw) /\ refEnd >= wsEnd + 1
        THEN SubSeq(line, wsEnd + 1, refEnd)
        ELSE kw_table_search_from(line, kw, p + 1)

kw_table_search(line, kw) == kw_table_search_from(line, kw, 1)

\* r'FROM\s+([^\s,\)]+)'
from_table_search(line) == kw_table_search(line, <<"F","R","O","M">>)

\* r'(?:LEFT\s+|RIGHT\s+|INNER\s+|FULL\s+|CROSS\s+)?JOIN\s+([^\s,\)]+)'.
\* The optional modifier only moves the start of the match to the left: no
\* modifier followed by whitespace contains JOIN, so the leftmost match ends
\* in the leftmost JOIN that is followed by whitespace and a reference, and
\* group(1) is that reference.
join_table_search(line) == kw_table_search(line, <<"J","O","I","N">>)

\* r'^\s*FROM\s*$' (re.IGNORECASE)
from_alone(line) ==
    LET p == RunEnd(line, 1, WS) + 1
    IN  MatchAtCI(line, p, <<"F","R","O","M">>) /\ RunEnd(line, p + 4, WS) = Len(line)

\* re.match(r'^\s*([a-zA-Z_][a-zA-Z0-9_.]*)\s*(?:[a-zA-Z_][a-zA-Z0-9_]*\s*)?$'):
\* group(1), or None.  group(1) is the longest dotted run: a shorter one
\* leaves an identifier character that only the optional second identifier
\* could take, and then the longest one matches as well.
table_line_match(line) ==
    LET p == RunEnd(line, 1, WS) + 1
        e == RunEnd(line, p + 1, DottedChars)
        b == RunEnd(line, e + 1, WS)
        second == b + 1 <= Len(line) /\ line[b + 1] \in IdentStartChars
        tailEnd == IF second
                   THEN RunEnd(line, RunEnd(line, b + 2, IdentChars) + 1, WS)
                   ELSE b
    IN  IF p <= Len(line) /\ line[p] \in IdentStartChars /\ tailEnd = Len(line)
        THEN SubSeq(line, p, e)
        ELSE None

\* re.search(r'KW\s*$', line, re.IGNORECASE): the optional JOIN modifier of
\* line 290 does not change whether there is a match.
ends_with_kw(line, kw) ==
    MatchAtCI(line, RunStart(line, Len(line), WS) - Len(kw), kw)

\* re.search(r'^\s*(w1|w2|...)', line, re.IGNORECASE)
starts_with_any(line, words) ==
    LET p == RunEnd(line, 1, WS) + 1
    IN  \E k \in 1..Len(words) : MatchAtCI(line, p, words[k])

left_scan_stop_words == << <<"S","E","L","E","C","T">>, <<"W","I","T","H">>, <<")">> >>

\* One pass of the backward loop at line k (Python's i is k - 1).
RECURSIVE find_left_from(_, _)
find_left_from(lns, k) ==
    IF k < 1 THEN <<"u","n","k","n","o","w","n">>
    ELSE
    LET line == strip(lns[k])
        next_line == IF k + 1 <= Len(lns) THEN strip(lns[k + 1]) ELSE None
        prev_line == IF k > 1 THEN strip(lns[k - 1]) ELSE None
    IN  IF line = <<>> \/ startswith(line, <<"-","-">>) THEN find_left_from(lns, k - 1)
        ELSE IF /\ from_alone(line)
                /\ k + 1 <= Len(lns)
                /\ next_line # <<>>
                /\ ~startswith(next_line, <<"-","-">>)
             THEN extract_table_name(next_line)
        ELSE IF from_table_search(line) # None
             THEN extract_table_name(strip(from_table_search(line)))
        ELSE IF join_table_search(line) # None
             THEN extract_table_name(strip(join_table_search(line)))
        ELSE IF /\ table_line_match(line) # None
                /\ k > 1
                /\ (ends_with_kw(prev_line, <<"J","O","I","N">>) \/ ends_with_kw(prev_line, <<"F","R","O","M">>))
             THEN extract_table_name(table_line_match(line))
        ELSE IF starts_with_any(line, left_scan_stop_words) THEN <<"u","n","k","n","o","w","n">>
        ELSE find_left_from(lns, k - 1)

\* A faulty _find_left_table that takes the nearest FROM clause above the
\* JOIN line, whatever lies in between.
_find_left_table_nearest_from(lns, join_line_idx) ==
    LET froms == {k \in 1..(join_line_idx - 1) : from_table_search(strip(lns[k])) # None}
        nearest == CHOOSE k \in froms : \A j \in froms : j <= k
    IN  IF froms = {} THEN <<"u","n","k","n","o","w","n">>
        ELSE extract_table_name(from_table_search(strip(lns[nearest])))

\* join_line_idx is the 1-based number of the JOIN line; the scan starts on
\* the line before it (range(join_line_idx - 2, -1, -1) over 0-based lines).
_find_left_table(lns, join_line_idx) == find_left_from(lns, join_line_idx - 1)

---------------------------------------------------------------------------
(* _extract_join_condition                                                 *)

ScanWindow == 8
ContinuationWindow == 5
MaxConditionLen == 120
TruncatedLen == 117

\* r'^\s*ON\b' (re.IGNORECASE)
on_clause(line) ==
    LET p == RunEnd(line, 1, WS) + 1
    IN  MatchAtCI(line, p, <<"O","N">>) /\ (p + 2 > Len(line) \/ ~IsWord(line[p + 2]))

\* re.search(r'ON\s+(.+)', line, re.IGNORECASE) on a stripped line: group(1)
\* of the leftmost match, or None.  The line does not end in whitespace, so
\* the whitespace run after ON is followed by at least one character.
RECURSIVE on_match_from(_, _)
on_match_from(line, pos) ==
    LET p == FindCI(line, pos, <<"O","N">>)
        wsEnd == RunEnd(line, p + 2, WS)
    IN  IF p = 0 THEN None
        ELSE IF wsEnd >= p + 2 /\ wsEnd + 1 <= Len(line)
        THEN SubSeq(line, wsEnd + 1, Len(line))
        ELSE on_match_from(line, p + 1)

on_match(line) == on_match_from(line, 1)

\* r'^\s*AND\s+' (re.IGNORECASE)
and_continuation(line) ==
    LET p == RunEnd(line, 1, WS) + 1
    IN  MatchAtCI(line, p, <<"A","N","D">>) /\ p + 3 <= Len(line) /\ IsSpace(line[p + 3])

\* The alternatives of line 342; X\s+JOIN is X, whitespace, JOIN.
major_clause_words == << <<"J","O","I","N">>, <<"F","R","O","M">>, <<"W","H","E","R","E">>, <<"G","R","O","U","P">>, <<"O","R","D","E","R">>, <<"S","E","L","E","C","T">> >>
major_join_modifiers == << <<"L","E","F","T">>, <<"R","I","G","H","T">>, <<"I","N","N","E","R">>, <<"F","U","L","L">> >>

major_clause(line) ==
    LET p == RunEnd(line, 1, WS) + 1
        modEnd(k) == p + Len(major_join_modifiers[k]) - 1
        wsEnd(k) == RunEnd(line, modEnd(k) + 1, WS)
    IN  \/ \E k \in 1..Len(major_join_modifiers) :
              /\ MatchAtCI(line, p, major_join_modifiers[k])
              /\ wsEnd(k) > modEnd(k)
              /\ MatchAtCI(line, wsEnd(k) + 1, <<"J","O","I","N">>)
        \/ starts_with_any(line, major_clause_words)

\* The inner loop (lines 321-337) from line j to line last: a line that
\* starts with AND is kept; any other line that is neither blank nor a
\* comment ends the loop (both remaining branches break).
RECURSIVE collect_continuation(_, _, _)
collect_continuation(lns, j, last) ==
    IF j > last THEN <<>>
    ELSE LET next_line == strip(lns[j])
         IN  IF next_line = <<>> \/ startswith(next_line, <<"-","-">>)
             THEN collect_continuation(lns, j + 1, last)
             ELSE IF and_continuation(next_line)
             THEN <<next_line>> \o collect_continuation(lns, j + 1, last)
             ELSE <<>>

\* The outer loop (lines 306-343) from line k to line last: condition_lines.
RECURSIVE scan_for_on(_, _, _)
scan_for_on(lns, k, last) ==
    IF k > last THEN <<>>
    ELSE LET line == strip(lns[k])
             first == IF on_match(line) # None THEN <<strip(on_match(line))>> ELSE <<>>
         IN  IF line = <<>> \/ startswith(line, <<"-","-">>) THEN scan_for_on(lns, k + 1, last)
             ELSE IF on_clause(line)
             THEN first \o collect_continuation(lns, k + 1,
                                Min({Len(lns), k - 1 + ContinuationWindow}))
             ELSE IF major_clause(line) THEN <<>>
             ELSE scan_for_on(lns, k + 1, last)

\* re.sub(r'\s+', ' ', s)
RECURSIVE collapse_whitespace(_)
collapse_whitespace(s) ==
    LET a == RunEndNot(s, 1, WS) + 1
    IN  IF a > Len(s) THEN s
        ELSE SubSeq(s, 1, a - 1) \o <<" ">>
             \o collapse_whitespace(SubSeq(s, RunEnd(s, a, WS) + 1, Len(s)))

\* A faulty _extract_join_condition that returns the collapsed text whole.
_extract_join_condition_untruncated(lns, start_idx) ==
    LET condition_lines ==
            scan_for_on(lns, start_idx + 1, Min({Len(lns), start_idx + ScanWindow}))
        condition_text == strip(join_str(<<" ">>, condition_lines))
    IN  IF condition_text # <<>> THEN collapse_whitespace(condition_text)
        ELSE <<"N","o","t"," ","f","o","u","n","d">>

\* start_idx counts 0-based lines: the first line read is line start_idx + 1.
_extract_join_condition(lns, start_idx) ==
    LET condition_lines ==
            scan_for_on(lns, start_idx + 1, Min({Len(lns), start_idx + ScanWindow}))
        condition_text == strip(join_str(<<" ">>, condition_lines))
        collapsed == collapse_whitespace(condition_text)
        shown == IF Len(collapsed) > MaxConditionLen
                 THEN SubSeq(collapsed, 1, TruncatedLen) \o <<".",".",".">>
                 ELSE collapsed
    IN  IF condition_text # <<>> THEN shown ELSE <<"N","o","t"," ","f","o","u","n","d">>

---------------------------------------------------------------------------
(* _register_table, _estimate_table_rows                                   *)

_estimate_table_rows(name, size_category) ==
    LET table_lower == lower(name)
    IN  IF Contains(table_lower, <<"o","r","d","e","r","_","c","o","n","t","r","i","b","u","t","i","o","n","_","p","r","o","f","i","t","_","f","a","c","t">>) THEN "100M+"
        ELSE IF Contains(table_lower, <<"m","a","n","a","g","e","d","_","d","e","l","i","v","e","r","y","_","f","a","c","t">>) THEN "50M+"
        ELSE IF Contains(table_lower, <<"t","i","c","k","e","t","_","f","a","c","t">>) THEN "10M+"
        ELSE IF \/ Contains(table_lower, <<"a","d","j","u","s","t","m","e","n","t","_","r","e","p","o","r","t","i","n","g">>)
                \/ Contains(table_lower, <<"c","o","n","c","e","s","s","i","o","n","_","r","e","p","o","r","t","i","n","g">>) THEN "5M+"
        ELSE IF Contains(table_lower, <<"c","a","n","c","e","l","l","a","t","i","o","n">>) /\ Contains(table_lower, <<"f","a","c","t">>)
             THEN "1M+"
        ELSE IF \/ Contains(table_lower, <<"p","r","i","m","a","r","y","_","c","o","n","t","a","c","t","_","r","e","a","s","o","n">>)
                \/ Contains(table_lower, <<"s","e","c","o","n","d","a","r","y","_","c","o","n","t","a","c","t","_","r","e","a","s","o","n">>) THEN "<1K"
        ELSE IF Contains(table_lower, <<"c","a","r","e","_","c","o","s","t","_","r","e","a","s","o","n","s">>) THEN "<100"
        ELSE CASE size_category = "large"   -> "1M+"
               [] size_category = "medium"  -> "100K-1M"
               [] size_category = "small"   -> "<100K"
               [] size_category = "derived" -> "Variable"
               [] OTHER                     -> "Unknown"

\* The TableInfo line 364 builds.
new_table_info(name, full_reference) ==
    LET size_category == categorize_table_size(full_reference)
    IN  [name           |-> name,
         full_name      |-> full_reference,
         size_category  |-> size_category,
         is_cte         |-> ~Contains(full_reference, <<".">>),
         description    |-> "",
         estimated_rows |-> _estimate_table_rows(name, size_category)]

\* A faulty _register_table that overwrites the entry of a registered name.
_register_table_overwrite(tbls, name, full_reference) ==
    [n \in DOMAIN tbls \cup {name} |->
        IF n = name THEN new_table_info(name, full_reference) ELSE tbls[n]]

\* The value of self.tables after _register_table(name, full_reference).
_register_table(tbls, name, full_reference) ==
    IF name \in DOMAIN tbls THEN tbls
    ELSE [n \in DOMAIN tbls \cup {name} |->
             IF n = name THEN new_table_info(name, full_reference) ELSE tbls[n]]

---------------------------------------------------------------------------
(* analyze_join_order                                                      *)

\* A message built by an f-string: its literal parts and the values put in.
Lit(text) == [lit |-> text]
Txt(chars) == [txt |-> chars]

NotFound == <<"N","o","t"," ","f","o","u","n","d">>

\* One match of r'(\w+)\.(\w+)\s*=\s*(\w+)\.(\w+)' tried at position p only;
\* every \w+ is a maximal run, because what must follow it is no word
\* character.
column_match_at(s, p) ==
    LET e1 == RunEnd(s, p, WordChars)
        e2 == RunEnd(s, e1 + 2, WordChars)
        q  == RunEnd(s, e2 + 1, WS) + 1
        p3 == RunEnd(s, q + 1, WS) + 1
        e3 == RunEnd(s, p3, WordChars)
        e4 == RunEnd(s, e3 + 2, WordChars)
        ok == /\ e1 >= p
              /\ MatchAt(s, e1 + 1, <<".">>)
              /\ e2 >= e1 + 2
              /\ MatchAt(s, q, <<"=">>)
              /\ e3 >= p3
              /\ MatchAt(s, e3 + 1, <<".">>)
              /\ e4 >= e3 + 2
    IN  [ok |-> ok, end |-> e4,
         table1 |-> IF ok THEN SubSeq(s, p, e1) ELSE None,
         col1   |-> IF ok THEN SubSeq(s, e1 + 2, e2) ELSE None,
         table2 |-> IF ok THEN SubSeq(s, p3, e3) ELSE None,
         col2   |-> IF ok THEN SubSeq(s, e3 + 2, e4) ELSE None]

RECURSIVE column_findall(_, _)
column_findall(s, pos) ==
    LET starts == {p \in pos..Len(s) : column_match_at(s, p).ok}
    IN  IF starts = {} THEN <<>>
        ELSE LET m == column_match_at(s, Min(starts))
             IN  <<m>> \o column_findall(s, m.end + 1)

\* re.search(r'BETWEEN.*DATE', condition, re.IGNORECASE); a condition holds
\* no newline.
between_date(s) ==
    LET p == FindCI(s, 1, <<"B","E","T","W","E","E","N">>)
    IN  p # 0 /\ FindCI(s, p + 7, <<"D","A","T","E">>) # 0

\* list(set(index_recommendations)): the order of the list is the set's, so
\* the result is modelled as the set of its messages.
_analyze_join_condition_for_indexes(condition, left_table, right_table) ==
    LET found == column_findall(condition, 1)
        sides == {lower(left_table), lower(right_table)}
    IN  {<<Lit("Consider index on "), Txt(found[k].table1), Lit("."), Txt(found[k].col1)>> :
            k \in {n \in 1..Len(found) : lower(found[n].table1) \in sides}}
        \cup
        {<<Lit("Consider index on "), Txt(found[k].table2), Lit("."), Txt(found[k].col2)>> :
            k \in {n \in 1..Len(found) : lower(found[n].table2) \in sides}}
        \cup
        (IF between_date(condition)
         THEN {<<Lit("Date range condition detected - consider table partitioning by date")>>}
         ELSE {})

CartesianWarning == Lit(" WARNING: No JOIN condition found - potential Cartesian product!")

\* A faulty size_branch whose first branch leaves out the small left table.
size_branch_medium_left(left_info, right_info) ==
    IF /\ right_info.size_category = "large"
       /\ left_info.size_category = "medium"
       /\ ~left_info.is_cte /\ ~right_info.is_cte
    THEN "high"
    ELSE IF /\ right_info.size_category = "medium"
            /\ left_info.size_category = "small"
            /\ ~left_info.is_cte /\ ~right_info.is_cte
    THEN "medium"
    ELSE IF right_info.size_category = "large" /\ left_info.size_category = "derived"
    THEN "info"
    ELSE "none"

\* A faulty size_branch without the branch for a derived left table.
size_branch_no_derived(left_info, right_info) ==
    IF /\ right_info.size_category = "large"
       /\ left_info.size_category \in {"medium", "small"}
       /\ ~left_info.is_cte /\ ~right_info.is_cte
    THEN "high"
    ELSE IF /\ right_info.size_category = "medium"
            /\ left_info.size_category = "small"
            /\ ~left_info.is_cte /\ ~right_info.is_cte
    THEN "medium"
    ELSE "none"

\* A faulty cartesian_risk that compares with another spelling of the marker.
cartesian_risk_spelling(join) == join.join_condition = <<"N","o","t"," ","F","o","u","n","d">>

\* A faulty size_branch whose last branch takes any left table.
size_branch_any_left(left_info, right_info) ==
    IF /\ right_info.size_category = "large"
       /\ left_info.size_category \in {"medium", "small"}
       /\ ~left_info.is_cte /\ ~right_info.is_cte
    THEN "high"
    ELSE IF /\ right_info.size_category = "medium"
            /\ left_info.size_category = "small"
            /\ ~left_info.is_cte /\ ~right_info.is_cte
    THEN "medium"
    ELSE IF right_info.size_category = "large"
    THEN "info"
    ELSE "none"

\* A faulty size_branch that knows the first branch only.
size_branch_high_only(left_info, right_info) ==
    IF /\ right_info.size_category = "large"
       /\ left_info.size_category \in {"medium", "small"}
       /\ ~left_info.is_cte /\ ~right_info.is_cte
    THEN "high"
    ELSE "none"

\* The branch of the if/elif chain of lines 441-467 that is taken.
size_branch(left_info, right_info) ==
    IF /\ right_info.size_category = "large"
       /\ left_info.size_category \in {"medium", "small"}
       /\ ~left_info.is_cte /\ ~right_info.is_cte
    THEN "high"
    ELSE IF /\ right_info.size_category = "medium"
            /\ left_info.size_category = "small"
            /\ ~left_info.is_cte /\ ~right_info.is_cte
    THEN "medium"
    ELSE IF right_info.size_category = "large" /\ left_info.size_category = "derived"
    THEN "info"
    ELSE "none"

\* Whether lines 474-479 overwrite the priority.
cartesian_risk(join) == join.join_condition = NotFound

\* The recommendation built for one JoinClause (lines 414-482).
recommendation_for(join, left_info, right_info) ==
    LET branch == size_branch(left_info, right_info)
        issue_found == branch \in {"high", "medium"}
        swapped == join.right_table \o <<" ">> \o join.join_type \o <<" ">> \o join.left_table
        size_issue ==
            CASE branch = "high" ->
                    <<Lit("Large table ("), Txt(join.right_table),
                      Lit(") should typically be on the left side of JOIN for better performance")>>
              [] branch = "medium" ->
                    <<Lit("Medium table ("), Txt(join.right_table),
                      Lit(") should typically be on the left side when joining with small table for better performance")>>
              [] branch = "info" ->
                    <<Lit("Consider the size of derived table ("), Txt(join.left_table),
                      Lit(") - if small, consider moving large table ("), Txt(join.right_table),
                      Lit(") to the left")>>
              [] OTHER -> None
        size_order ==
            CASE branch \in {"high", "medium"} -> swapped
              [] branch = "info" -> <<"D","e","p","e","n","d","s"," ","o","n"," ","d","e","r","i","v","e","d"," ","t","a","b","l","e"," ","s","i","z","e",":"," ","p","o","s","s","i","b","l","y"," ">> \o swapped
              [] OTHER -> None
        size_priority == IF branch = "none" THEN "low" ELSE branch
        size_impact ==
            CASE branch = "high" -> "High - can significantly reduce query execution time"
              [] branch = "medium" -> "Medium - moderate performance improvement expected"
              [] branch = "info" -> "Variable - depends on derived table size"
              [] OTHER -> "Low"
        size_notes ==
            CASE branch = "high" ->
                    <<"Moving larger table to left side enables more efficient hash join strategies">>
              [] branch = "medium" ->
                    <<"Reordering can improve join efficiency and reduce memory usage">>
              [] branch = "info" ->
                    <<"Derived table size depends on preceding query logic - monitor actual row counts">>
              [] OTHER -> <<>>
        left_join_notes ==
            IF join.join_type = <<"L","E","F","T"," ","J","O","I","N">> /\ ~issue_found
            THEN <<"LEFT JOIN preserves all rows from left table - consider if INNER JOIN is possible for better performance">>
            ELSE <<>>
        cartesian == cartesian_risk(join)
        cartesian_notes ==
            IF cartesian
            THEN <<"CRITICAL: Missing JOIN condition will create Cartesian product - query may fail or take extremely long">>
            ELSE <<>>
    IN  [cte_name |-> join.cte_name,
         line_number |-> join.line_number,
         join_type |-> join.join_type,
         left_table |-> join.left_table,
         right_table |-> join.right_table,
         left_size |-> left_info.size_category,
         right_size |-> right_info.size_category,
         current_order |-> join.left_table \o <<" ">> \o join.join_type \o <<" ">> \o join.right_table,
         join_condition |-> join.join_condition,
         issue |-> IF cartesian THEN size_issue \o <<CartesianWarning>> ELSE size_issue,
         suggested_order |-> size_order,
         priority |-> IF cartesian THEN "critical" ELSE size_priority,
         performance_impact |->
             IF cartesian THEN "Critical - may cause query to hang or fail" ELSE size_impact,
         optimization_notes |-> size_notes \o left_join_notes \o cartesian_notes,
         index_recommendations |->
             IF join.join_condition # <<>> /\ join.join_condition # NotFound
             THEN _analyze_join_condition_for_indexes(
                      join.join_condition, join.left_table, join.right_table)
             ELSE {}]

\* The list analyze_join_order returns for the joins js and the tables tbls:
\* a join one of whose tables is not registered is skipped (line 411).
RECURSIVE analyze_joins(_, _)
analyze_joins(js, tbls) ==
    IF js = <<>> THEN <<>>
    ELSE LET join == Head(js)
         IN  (IF join.left_table \in DOMAIN tbls /\ join.right_table \in DOMAIN tbls
              THEN <<recommendation_for(join, tbls[join.left_table], tbls[join.right_table])>>
              ELSE <<>>)
             \o analyze_joins(Tail(js), tbls)

---------------------------------------------------------------------------
(* parse_joins                                                             *)

\* Lines 218-226 for the JOIN line numbered n (1-based): the reference text
\* of the right table and the 1-based number of the line it stands on.
right_table_source(lns, n) ==
    LET same_line == strip(join_pattern_search(lns[n]).group2)
        next_line == IF n < Len(lns) THEN strip(lns[n + 1]) ELSE None
        use_next == /\ same_line = <<>>
                    /\ n < Len(lns)
                    /\ next_line # <<>>
                    /\ ~startswith(next_line, <<"O","N">>)
    IN  [right_table_part |-> IF use_next THEN next_line ELSE same_line,
         table_line_idx   |-> IF use_next THEN n + 1 ELSE n]

\* A faulty join_clause that records the 0-based index of the table line.
join_clause_table_line(lns, n, cte) ==
    LET src == right_table_source(lns, n)
    IN  [join_type      |-> upper(strip(join_pattern_search(lns[n]).group1)),
         left_table     |-> _find_left_table(lns, n),
         right_table    |-> extract_table_name(src.right_table_part),
         join_condition |-> _extract_join_condition(lns, src.table_line_idx),
         cte_name       |-> cte,
         line_number    |-> src.table_line_idx]

\* The JoinClause of lines 231-247 for the JOIN line numbered n.
join_clause(lns, n, cte) ==
    LET src == right_table_source(lns, n)
    IN  [join_type      |-> upper(strip(join_pattern_search(lns[n]).group1)),
         left_table     |-> _find_left_table(lns, n),
         right_table    |-> extract_table_name(src.right_table_part),
         join_condition |-> _extract_join_condition(lns, src.table_line_idx),
         cte_name       |-> cte,
         line_number    |-> n]

\* A faulty is_join_line that accepts a JOIN line without a table reference.
is_join_line_any_match(lns, n) ==
    /\ cte_pattern_search(lns[n]) = None
    /\ join_pattern_search(lns[n]).matched

\* Whether the loop body reaches line 231 for line n.
is_join_line(lns, n) ==
    /\ cte_pattern_search(lns[n]) = None
    /\ join_pattern_search(lns[n]).matched
    /\ right_table_source(lns, n).right_table_part # <<>>

\* A faulty register_join_tables that registers the right table only.
register_right_table_only(tbls, lns, n, clause) ==
    _register_table(tbls, clause.right_table, right_table_source(lns, n).right_table_part)

\* Lines 252-253.
register_join_tables(tbls, lns, n, clause) ==
    _register_table(_register_table(tbls, clause.left_table, clause.left_table),
                    clause.right_table, right_table_source(lns, n).right_table_part)

---------------------------------------------------------------------------
(* Bounds and inputs                                                       *)

MaxLines == 3
MaxParses == 2
MaxPadding == 8

LinePool ==
    { <<"F","R","O","M"," ","s","m","a","l","l","_","r","e","f","_","t","a","b","l","e"," ","s">>,
      <<"J","O","I","N"," ","b","i","g","_","f","a","c","t","_","t","a","b","l","e"," ","f"," ","O","N"," ","s",".","i","d"," ","="," ","f",".","i","d">>,
      <<"J","O","I","N"," ","s",".","c","a","r","e","_","c","o","s","t","_","r","e","a","s","o","n","s">>,
      <<"L","E","F","T"," "," ","J","O","I","N"," ","o","d","s",".","t","i","c","k","e","t","_","f","a","c","t"," ","t">>,
      <<"O","N"," ","a",".","b"," ","="," ","c",".","d">>,
      <<"F","R","O","M"," ","a","d","j">>,
      <<"j","o","i","n"," ","o","r","d","e","r","_","c","o","n","t","r","i","b","u","t","i","o","n","_","p","r","o","f","i","t","_","f","a","c","t">>,
      <<"J","O","I","N">> }

\* Every text of at most MaxLines lines of the pool, its lines joined by
\* newlines.
PoolTexts == {join_str(<<"\n">>, t) : t \in UNION {[1..n -> LinePool] : n \in 0..MaxLines}}

\* Two joins, then up to MaxPadding lines the forward scan passes over, then
\* the ON line: texts that put the ON line inside and outside the scan window.
PaddingLines == { <<>>, <<"-","-"," ","n","o","t","e">>, <<"t",".","x"," ",">"," ","0">> }

PaddedTexts ==
    { join_str(<<"\n">>,
               << <<"J","O","I","N"," ","s",".","c","a","r","e","_","c","o","s","t","_","r","e","a","s","o","n","s">>, <<"L","E","F","T"," "," ","J","O","I","N"," ","o","d","s",".","t","i","c","k","e","t","_","f","a","c","t"," ","t">> >>
               \o [k \in 1..n |-> p] \o << <<"O","N"," ","a",".","b"," ","="," ","c",".","d">> >>) :
        n \in 0..MaxPadding, p \in PaddingLines }

\* Texts with a schema-qualified FROM table, CTE aliases on JOIN lines, a
\* JOIN keyword alone on its line, a SELECT line that carries a FROM clause,
\* FROM alone on its line, and ON clauses with continuation lines.
CaseLines ==
    { << <<"F","R","O","M"," ","o","d","s",".","t","i","c","k","e","t","_","f","a","c","t">>, <<"J","O","I","N"," ","o","r","d","e","r","s">> >>,
      << <<"F","R","O","M"," ","s","m","a","l","l","_","r","e","f","_","t","a","b","l","e"," ","s">>, <<"J","O","I","N"," ","a","d","j"," ","a"," ","O","N"," ","a",".","i","d"," ","="," ","o",".","i","d">> >>,
      << <<"F","R","O","M"," ","c","a","n","c","e","l","s">>, <<"J","O","I","N"," ","a","d","j"," ","a">> >>,
      << <<"J","O","I","N"," ","a">>, <<"C","R","O","S","S"," ","J","O","I","N"," ","b">>, <<"O","N"," ","x",".","y"," ","="," ","z",".","w">> >>,
      << <<"J","O","I","N"," ","s",".","c","a","r","e","_","c","o","s","t","_","r","e","a","s","o","n","s">>, <<"J","O","I","N"," ","s",".","c","a","n","c","e","l","l","a","t","i","o","n","_","r","e","a","s","o","n","_","m","a","p"," ","m">> >>,
      << <<"J","O","I","N">>, <<"o","n"," ","a",".","b"," ","="," ","c",".","d">> >>,
      << <<"J","O","I","N">>, <<>>, <<"o","r","d","e","r","s"," ","o">>, <<"O","N"," ","a",".","b"," ","="," ","c",".","d">> >>,
      << <<"J","O","I","N">>, <<"o","r","d","e","r","s"," ","o">>, <<"O","N"," ","a",".","b"," ","="," ","c",".","d">> >>,
      << <<"S","E","L","E","C","T"," ","*"," ","F","R","O","M"," ","t">>, <<"J","O","I","N"," ","u">> >>,
      << <<"F","R","O","M"," ","t">>, <<"S","E","L","E","C","T"," ","x">>, <<"J","O","I","N"," ","u">> >>,
      << <<"F","R","O","M"," ","t">>, <<")"," ","s","u","b">>, <<"J","O","I","N"," ","u">> >>,
      << <<"J","O","I","N">>, <<"W","I","T","H"," ","x">>, <<"J","O","I","N"," ","u">> >>,
      << <<"F","R","O","M">>, <<>>, <<"o","r","d","e","r","s"," ","o">>, <<"J","O","I","N"," ","b","i","g","_","f","a","c","t"," ","f">> >>,
      << <<"F","R","O","M">>, <<"o","r","d","e","r","s"," ","A","S"," ","o">>, <<"J","O","I","N"," ","b","i","g","_","f","a","c","t"," ","f">> >>,
      << <<"J","O","I","N"," ","u">>, <<"O","N"," ","a",".","x"," "," ","=","\t"," ","b",".","y">>, <<" "," ","A","N","D"," "," ","a",".","z"," ","="," "," ","1">> >>,
      << <<"J","O","I","N"," ","u">>, <<"O","N"," ","a",".","b"," ","="," ","c",".","d">>, <<"A","N","D"," ","a",".","e"," ","="," ","1">>, <<"A","N","D"," ","a",".","f"," ","="," ","2">>, <<"A","N","D"," ","a",".","g"," ","="," ","3">>,
         <<"A","N","D"," ","a",".","h"," ","="," ","4">>, <<"A","N","D"," ","a",".","k"," ","="," ","5">> >>,
      << <<"J","O","I","N"," ","u">>, <<"O","N"," ","a",".","c","u","s","t","o","m","e","r","_","i","d"," ","="," ","b",".","c","u","s","t","o","m","e","r","_","i","d">>,
         <<"A","N","D"," ","a",".","o","r","d","e","r","_","d","a","t","e","_","k","e","y"," ","="," ","b",".","o","r","d","e","r","_","d","a","t","e","_","k","e","y">>,
         <<"A","N","D"," ","a",".","r","e","s","t","a","u","r","a","n","t","_","i","d","_","k","e","y"," ","="," ","b",".","r","e","s","t","a","u","r","a","n","t","_","i","d","_","k","e","y">>,
         <<"A","N","D"," ","a",".","d","e","l","i","v","e","r","y","_","r","e","g","i","o","n"," ","="," ","b",".","d","e","l","i","v","e","r","y","_","r","e","g","i","o","n">>,
         <<"A","N","D"," ","a",".","n"," ","="," ","b",".","n">>, <<"A","N","D"," ","a",".","l"," ","="," ","c",".","m">>, <<"W","H","E","R","E"," ","a",".","x"," ",">"," ","0">> >> }

CaseTexts == { join_str(<<"\n">>, t) : t \in CaseLines }

SqlFiles == PoolTexts \cup PaddedTexts \cup CaseTexts

ContextFiles == { <<>> }

\* Texts and context documents about tables the context document describes.
HintLinePool ==
    { <<"F","R","O","M"," ","o","d","s",".","t","i","c","k","e","t","_","f","a","c","t">>,
      <<"L","E","F","T"," ","J","O","I","N"," ","o","d","s",".","t","i","c","k","e","t","_","f","a","c","t"," ","t">>,
      <<"J","O","I","N"," ","S","m","a","l","l","_","R","e","f","_","T","a","b","l","e">>,
      <<"F","R","O","M"," ","s","m","a","l","l","_","r","e","f","_","t","a","b","l","e"," ","s">>,
      <<"J","O","I","N"," ","o","r","d","e","r","s">>,
      <<"O","N"," ","a",".","b"," ","="," ","c",".","d">> }

HintSqlFiles ==
    {join_str(<<"\n">>, t) : t \in UNION {[1..n -> HintLinePool] : n \in 0..MaxLines}}

HintContextFiles ==
    { <<"o","d","s",".","t","i","c","k","e","t","_","f","a","c","t"," ","i","s"," ","a"," ","l","o","o","k","u","p"," ","t","a","b","l","e">>,
      <<"d","b",".","s","m","a","l","l","_","r","e","f","_","t","a","b","l","e"," "," ","f","a","c","t"," ","t","a","b","l","e","\n","o","d","s",".","o","r","d","e","r","s"," ","C","o","n","t","a","i","n","s"," ","o","n","e"," ","r","o","w"," ","p","e","r"," ","o","r","d","e","r">>,
      <<"T","h","e"," ","o","d","s",".","o","r","d","e","r","s","\n","d","i","m","e","n","s","i","o","n"," ","a","n","d"," ","t","h","e"," ","r","e","f","e","r","e","n","c","e"," ","t","a","b","l","e"," ","o","d","s",".","t","i","c","k","e","t","_","f","a","c","t">> }

\* References of the forms [schema.]Name, [schema.]Name alias and
\* [schema.]Name AS alias, with whitespace around them, as their parts.
References ==
    [lead   : {<<>>, <<" ">>, <<"\t">>},
     schema : {<<>>, <<"s","c","h","e","m","a",".">>, <<"O","D","S",".">>},
     name   : {<<"O","r","d","e","r","s">>, <<"t","i","c","k","e","t","_","f","a","c","t">>, <<"A","S">>, <<"T","1">>},
     alias  : {<<>>, <<" ","o">>, <<" "," ","A","S"," ","o">>, <<" ","a","s"," ","o">>, <<"\t","A","s","\t","t">>},
     trail  : {<<>>, <<" ">>}]

reference_text(r) == r.lead \o r.schema \o r.name \o r.alias \o r.trail

EmptyMap == <<>>

Constructed ==
    /\ sql_content = <<>>
    /\ context_content = <<>>
    /\ table_context_info = EmptyMap
    /\ joins = <<>>
    /\ tables = EmptyMap
    /\ lines = <<>>
    /\ current_cte = None
    /\ i = 0
    /\ parses = 0
    /\ recommendations = <<>>

NoDirectCall ==
    /\ table_reference = None
    /\ table_name = None

\* Both input files readable, the output file writable.
AllPresent == [sql |-> "present", context |-> "present", output |-> "writable"]

\* No command line: the analyzer is driven by a caller, not by main.
NoArgs == [format |-> "none", output |-> FALSE]

\* The analyzer driven directly, all files in place.
NoMain ==
    /\ files = AllPresent
    /\ args = NoArgs
    /\ stdout = <<>>
    /\ exit_status = "running"
    /\ in_report = FALSE

\* No DataQualityValidator and no QueryVerificationFramework in the process.
NoValidator ==
    /\ validation_level = "none"
    /\ method_idx = 0
    /\ all_issues = <<>>
    /\ validation_log = <<>>
    /\ summary = None

NoFramework ==
    /\ environment = None
    /\ query_content = None
    /\ logger = FALSE
    /\ has_db_connection = FALSE
    /\ verification_results = <<>>
    /\ scenario_idx = 0
    /\ suite_calls = 0
    /\ comparison = None

Init ==
    /\ sql_file \in SqlFiles
    /\ context_file \in ContextFiles
    /\ Constructed
    /\ NoDirectCall
    /\ NoMain
    /\ NoValidator
    /\ NoFramework
    /\ pc = "constructed"

\* The same analyzer, given a SQL text and a context document about its tables.
InitHints ==
    /\ sql_file \in HintSqlFiles
    /\ context_file \in HintContextFiles
    /\ Constructed
    /\ NoDirectCall
    /\ NoMain
    /\ NoValidator
    /\ NoFramework
    /\ pc = "constructed"

\* A direct call of extract_table_name on a fresh analyzer.
InitExtract ==
    /\ sql_file = <<>>
    /\ context_file = <<>>
    /\ Constructed
    /\ NoMain
    /\ NoValidator
    /\ NoFramework
    /\ table_reference \in References
    /\ table_name = None
    /\ pc = "call"

\* The states of the file system: the SQL file present, missing, or present
\* but not readable (open raises another error than FileNotFoundError); the
\* context file present or missing; the output file writable or not.
Files ==
    [sql : {"present", "missing", "unreadable"},
     context : {"present", "missing"},
     output : {"writable", "unwritable"}]

\* The command lines of main: --format and whether --output is given.
Args == [format : {"text", "csv", "json"}, output : BOOLEAN]

MainSqlFiles ==
    { <<>>,
      <<"S","E","L","E","C","T"," ","1">>,
      join_str(<<"\n">>, << <<"F","R","O","M"," ","s","m","a","l","l","_","r","e","f","_","t","a","b","l","e"," ","s">>, <<"J","O","I","N"," ","b","i","g","_","f","a","c","t","_","t","a","b","l","e"," ","f"," ","O","N"," ","s",".","i","d"," ","="," ","f",".","i","d">> >>),
      join_str(<<"\n">>, << <<"F","R","O","M"," ","o","d","s",".","o","r","d","e","r","s"," ","o">>, <<"J","O","I","N"," ","o","d","s",".","t","i","c","k","e","t","_","f","a","c","t"," ","t">>, <<"O","N"," ","o",".","i","d"," ","="," ","t",".","i","d">> >>) }

MainContextFiles == { <<>>, <<"o","d","s",".","t","i","c","k","e","t","_","f","a","c","t"," ","i","s"," ","a"," ","l","o","o","k","u","p"," ","t","a","b","l","e">> }

\* A run of the script (pc = "main"), or an analyzer constructed and driven
\* by a caller (pc = "constructed"), over every state of the file system.
InitMain ==
    /\ sql_file \in MainSqlFiles
    /\ context_file \in MainContextFiles
    /\ files \in Files
    /\ \/ pc = "main" /\ args \in Args
       \/ pc = "constructed" /\ args = NoArgs
    /\ stdout = <<>>
    /\ exit_status = "running"
    /\ in_report = FALSE
    /\ Constructed
    /\ NoDirectCall
    /\ NoValidator
    /\ NoFramework

---------------------------------------------------------------------------
(* Operations                                                              *)

\* main, lines 795-814: the existence checks and the construction.
main_start ==
    /\ pc = "main"
    /\ IF files.sql = "missing"
       THEN /\ stdout' = Append(stdout, "Error: SQL file not found in current directory")
            /\ exit_status' = "1"
            /\ pc' = "exited"
       ELSE /\ stdout' = IF files.context = "missing"
                         THEN Append(stdout, "Warning: Context file not found in current directory")
                         ELSE stdout
            /\ pc' = "constructed"
            /\ UNCHANGED exit_status
    /\ UNCHANGED <<validator_vars, framework_vars, sql_file, context_file, sql_content, context_content,
                   table_context_info, joins, tables, lines, current_cte, i, parses,
                   recommendations, table_reference, table_name, files, args, in_report>>

\* What load_files prints (lines 72 and 80).
load_files_prints(out) ==
    IF files.sql = "missing" THEN Append(out, "Error: SQL file not found")
    ELSE IF files.sql = "present" /\ files.context = "missing"
    THEN Append(out, "Warning: Context file not found")
    ELSE out

\* A faulty loaded_context_info that parses the document of a missing file.
loaded_context_info_stale(info) == _parse_context_info(info, context_file)

\* self.table_context_info after load_files has read both files.
loaded_context_info(info) ==
    IF files.context = "missing" THEN info ELSE _parse_context_info(info, context_file)

load_files ==
    /\ pc = "constructed"
    /\ stdout' = load_files_prints(stdout)
    /\ CASE files.sql = "missing" ->
              /\ exit_status' = "1"
              /\ pc' = "exited"
              /\ UNCHANGED <<sql_content, context_content, table_context_info>>
         [] files.sql = "unreadable" ->
              /\ pc' = "raised"
              /\ UNCHANGED <<sql_content, context_content, table_context_info, exit_status>>
         [] OTHER ->
              /\ sql_content' = sql_file
              /\ context_content' = IF files.context = "missing" THEN <<>> ELSE context_file
              /\ table_context_info' = loaded_context_info(table_context_info)
              /\ pc' = "loaded"
              /\ UNCHANGED exit_status
    /\ UNCHANGED <<validator_vars, framework_vars, sql_file, context_file, joins, tables, lines, current_cte, i, parses,
                   recommendations, table_reference, table_name, files, args, in_report>>

\* parse_joins, lines 198-199.  main calls parse_joins once.
parse_joins_start ==
    /\ pc = "loaded" \/ (pc = "parsed" /\ args.format = "none")
    /\ parses < MaxParses
    /\ lines' = split_lines(sql_content)
    /\ current_cte' = None
    /\ i' = 0
    /\ pc' = "parsing"
    /\ UNCHANGED <<validator_vars, framework_vars, sql_file, context_file, sql_content, context_content,
                   table_context_info, joins, tables, parses, recommendations,
                   table_reference, table_name, process_vars>>

\* parse_joins, one pass of the loop of lines 207-253.
parse_joins_line ==
    /\ pc = "parsing"
    /\ i < Len(lines)
    /\ LET n == i + 1
           cte_match == cte_pattern_search(lines[n])
           clause == join_clause(lines, n, current_cte)
       IN  IF cte_match # None
           THEN /\ current_cte' = cte_match
                /\ UNCHANGED <<joins, tables>>
           ELSE IF is_join_line(lines, n)
           THEN /\ joins' = Append(joins, clause)
                /\ tables' = register_join_tables(tables, lines, n, clause)
                /\ UNCHANGED current_cte
           ELSE UNCHANGED <<current_cte, joins, tables>>
    /\ i' = i + 1
    /\ UNCHANGED <<validator_vars, framework_vars, sql_file, context_file, sql_content, context_content,
                   table_context_info, pc, lines, parses, recommendations,
                   table_reference, table_name, process_vars>>

\* parse_joins, the loop is exhausted and the call returns.
parse_joins_return ==
    /\ pc = "parsing"
    /\ i = Len(lines)
    /\ pc' = "parsed"
    /\ parses' = parses + 1
    /\ UNCHANGED <<validator_vars, framework_vars, sql_file, context_file, sql_content, context_content,
                   table_context_info, joins, tables, lines, current_cte, i,
                   recommendations, table_reference, table_name, process_vars>>

analyze_join_order ==
    /\ pc = "parsed"
    /\ recommendations' = analyze_joins(joins, tables)
    /\ pc' = "analyzed"
    /\ UNCHANGED <<validator_vars, framework_vars, sql_file, context_file, sql_content, context_content,
                   table_context_info, joins, tables, lines, current_cte, i, parses,
                   table_reference, table_name, process_vars>>

\* main, line 823: generate_report is called (lines 576-582).  When
\* self.joins is empty it calls load_files and parse_joins, then
\* analyze_join_order; these calls are the steps that follow.
generate_report ==
    /\ pc = "analyzed"
    /\ args.format = "text"
    /\ ~in_report
    /\ in_report' = TRUE
    /\ pc' = IF joins = <<>> THEN "constructed" ELSE "parsed"
    /\ UNCHANGED <<validator_vars, framework_vars, sql_file, context_file, sql_content, context_content,
                   table_context_info, joins, tables, lines, current_cte, i, parses,
                   recommendations, table_reference, table_name, files, args, stdout,
                   exit_status>>

\* main, lines 825-830: generate_report has returned the report text, which
\* is written to --output or printed; main returns.  Writing to a file that
\* cannot be opened raises.
main_text_output ==
    /\ pc = "analyzed"
    /\ in_report
    /\ in_report' = FALSE
    /\ IF args.output /\ files.output = "unwritable"
       THEN /\ pc' = "raised"
            /\ UNCHANGED <<stdout, exit_status>>
       ELSE /\ stdout' = Append(stdout, IF args.output THEN "Report saved to" ELSE "report")
            /\ pc' = "exited"
            /\ exit_status' = "0"
    /\ UNCHANGED <<validator_vars, framework_vars, sql_file, context_file, sql_content, context_content,
                   table_context_info, joins, tables, lines, current_cte, i, parses,
                   recommendations, table_reference, table_name, files, args>>

CsvMaxConditionLen == 100
CsvTruncatedLen == 97

\* '; '.join(items)
joined(items) == [separator |-> "; ", items |-> items]

\* The recommendation dict after the loop body of lines 526-542.
csv_row(rec, tbls) ==
    LET estimated_rows(t) == IF t \in DOMAIN tbls THEN tbls[t].estimated_rows ELSE "Unknown"
        condition == IF Len(rec.join_condition) > CsvMaxConditionLen
                     THEN SubSeq(rec.join_condition, 1, CsvTruncatedLen) \o <<".",".",".">>
                     ELSE rec.join_condition
    IN  [f \in DOMAIN rec \cup {"left_estimated_rows", "right_estimated_rows"} |->
            CASE f = "left_estimated_rows" -> estimated_rows(rec.left_table)
              [] f = "right_estimated_rows" -> estimated_rows(rec.right_table)
              [] f = "join_condition" -> condition
              [] f = "optimization_notes" -> joined(rec.optimization_notes)
              [] f = "index_recommendations" -> joined(rec.index_recommendations)
              [] OTHER -> rec[f]]

\* main, lines 832-834: export_to_csv (lines 509-544), which rewrites the
\* recommendations it is given.
main_export_csv ==
    /\ pc = "analyzed"
    /\ args.format = "csv"
    /\ LET fails == recommendations # <<>> /\ files.output = "unwritable"
       IN  /\ recommendations' =
                 IF fails THEN recommendations
                 ELSE [k \in 1..Len(recommendations) |-> csv_row(recommendations[k], tables)]
           /\ stdout' = CASE recommendations = <<>> -> Append(stdout, "No data to export")
                          [] fails -> stdout
                          [] OTHER -> Append(stdout, "CSV export saved to")
           /\ pc' = IF fails THEN "raised" ELSE "exited"
           /\ exit_status' = IF fails THEN exit_status ELSE "0"
    /\ UNCHANGED <<validator_vars, framework_vars, sql_file, context_file, sql_content, context_content,
                   table_context_info, joins, tables, lines, current_cte, i, parses,
                   table_reference, table_name, files, args, in_report>>

\* main, lines 836-838: export_to_json (lines 546-574).
main_export_json ==
    /\ pc = "analyzed"
    /\ args.format = "json"
    /\ LET fails == files.output = "unwritable"
       IN  /\ stdout' = IF fails THEN stdout ELSE Append(stdout, "JSON export saved to")
           /\ pc' = IF fails THEN "raised" ELSE "exited"
           /\ exit_status' = IF fails THEN exit_status ELSE "0"
    /\ UNCHANGED <<validator_vars, framework_vars, sql_file, context_file, sql_content, context_content,
                   table_context_info, joins, tables, lines, current_cte, i, parses,
                   recommendations, table_reference, table_name, files, args, in_report>>

\* A faulty main_except that ends the process with status 0.
main_except_status_0 ==
    /\ pc = "raised"
    /\ args.format # "none"
    /\ stdout' = Append(stdout, "Error during analysis")
    /\ exit_status' = "0"
    /\ pc' = "exited"
    /\ UNCHANGED <<validator_vars, framework_vars, sql_file, context_file, sql_content, context_content,
                   table_context_info, joins, tables, lines, current_cte, i, parses,
                   recommendations, table_reference, table_name, files, args, in_report>>

\* main, lines 840-844: the handler of an exception raised inside the try.
main_except ==
    /\ pc = "raised"
    /\ args.format # "none"
    /\ stdout' = Append(stdout, "Error during analysis")
    /\ exit_status' = "1"
    /\ pc' = "exited"
    /\ UNCHANGED <<validator_vars, framework_vars, sql_file, context_file, sql_content, context_content,
                   table_context_info, joins, tables, lines, current_cte, i, parses,
                   recommendations, table_reference, table_name, files, args, in_report>>

\* extract_table_name(reference) called directly.
extract_table_name_call ==
    /\ pc = "call"
    /\ table_name' = extract_table_name(reference_text(table_reference))
    /\ pc' = "returned"
    /\ UNCHANGED <<validator_vars, framework_vars, sql_file, context_file, sql_content, context_content,
                   table_context_info, joins, tables, lines, current_cte, i, parses,
                   recommendations, table_reference, process_vars>>

Next ==
    \/ load_files
    \/ parse_joins_start
    \/ parse_joins_line
    \/ parse_joins_return
    \/ analyze_join_order

Spec == Init /\ [][Next]_vars

SpecHints == InitHints /\ [][Next]_vars

NextExtract == extract_table_name_call

SpecExtract == InitExtract /\ [][NextExtract]_vars

NextMain ==
    \/ main_start
    \/ load_files
    \/ parse_joins_start
    \/ parse_joins_line
    \/ parse_joins_return
    \/ analyze_join_order
    \/ generate_report
    \/ main_text_output
    \/ main_export_csv
    \/ main_export_json
    \/ main_except

SpecMain == InitMain /\ [][NextMain]_vars

---------------------------------------------------------------------------
(* data_quality_validator.py: DataQualityValidator.run_validation          *)

\* __init__, lines 56-63: self.validation_configs.
validation_configs ==
    [critical_only |-> <<"Date Range Validation", "Aggregation Logic Validation",
                         "Business Logic Validation">>,
     basic         |-> <<"Date Range Validation", "Monetary Values Validation",
                         "Aggregation Logic Validation", "Business Logic Validation">>,
     full          |-> <<"Date Range Validation", "Timestamp Logic Validation",
                         "Monetary Values Validation",
                         "Categorical Consistency Validation",
                         "Aggregation Logic Validation", "Business Logic Validation",
                         "SQL Query Specific Logic Validation">>]

\* run_validation, lines 451-459: the names of all_validation_methods, in order.
all_validation_methods ==
    <<"Date Range Validation", "Timestamp Logic Validation",
      "Monetary Values Validation", "Categorical Consistency Validation",
      "Aggregation Logic Validation", "Business Logic Validation",
      "SQL Query Specific Logic Validation">>

\* Lines 462-463: validation_configs.get(level, validation_configs['full']).
selected_methods(level) ==
    IF level \in DOMAIN validation_configs THEN validation_configs[level]
    ELSE validation_configs["full"]

\* Lines 464-465: the methods of all_validation_methods whose name is selected.
validation_methods(level) ==
    SelectSeq(all_validation_methods,
              LAMBDA name : \E k \in 1..Len(selected_methods(level)) :
                                selected_methods(level)[k] = name)

\* An issue dictionary: its 'type', its 'severity' and its 'check' keys
\* ("absent" for a key the dictionary does not have).
issue(type, severity) == [type |-> type, severity |-> severity, check |-> "absent"]

\* Lines 451-459: the method bound to each name, as the issues the method
\* can append, in the order of its statements (type and severity as written
\* in validate_date_ranges, validate_timestamp_logic, validate_monetary_values,
\* validate_categorical_consistency, validate_aggregation_logic,
\* validate_business_logic and validate_sql_query_specific_logic).
method_of(name) ==
    CASE name = "Date Range Validation" ->
            <<issue("date_range_violation", "high"),
              issue("extended_date_range_violation", "medium")>>
      [] name = "Timestamp Logic Validation" ->
            <<issue("future_timestamp", "absent"),
              issue("invalid_time_format", "absent"),
              issue("time_parsing_error", "absent")>>
      [] name = "Monetary Values Validation" ->
            <<issue("extreme_monetary_value", "medium"),
              issue("unexpected_negative_value", "high"),
              issue("missing_monetary_values", "low")>>
      [] name = "Categorical Consistency Validation" ->
            <<issue("unexpected_categorical_value", "absent"),
              issue("inconsistent_cancel_flags", "absent")>>
      [] name = "Aggregation Logic Validation" ->
            <<issue("order_count_mismatch", "absent"),
              issue("logical_inconsistency", "absent")>>
      [] name = "Business Logic Validation" ->
            <<issue("business_logic_violation", "absent"),
              issue("extreme_eta_value", "absent")>>
      [] OTHER ->
            <<issue("market_distribution_warning", "low"),
              issue("eta_logistics_correlation_warning", "low"),
              issue("logical_inconsistency", "high"),
              issue("high_cancellation_rate_warning", "medium")>>

\* What a call method(df) can do, the dataframe deciding: return no issue,
\* its first issue, all its issues together, or raise.
Outcomes(name) ==
    LET kinds == method_of(name) IN
    {[raised |-> FALSE, issues |-> <<>>],
     [raised |-> FALSE, issues |-> <<kinds[1]>>],
     [raised |-> FALSE, issues |-> kinds],
     [raised |-> TRUE, issues |-> <<>>]}

\* Lines 475-479: the issue the except branch builds.
error_issue(check_name) ==
    [type |-> "validation_error", severity |-> "absent", check |-> check_name]

\* Lines 474-481 without effect: the raising check leaves no issue.
except_branch_silent(issues, check_name) == issues

\* Lines 474-481: the except branch of the loop.
except_branch(issues, check_name) == Append(issues, error_issue(check_name))

\* Lines 470-481: one iteration of the loop over validation_methods.
run_check(issues, check_name, outcome) ==
    IF outcome.raised THEN except_branch(issues, check_name)
    ELSE issues \o outcome.issues

\* Lines 499-502.
critical_types ==
    {"date_range_violation", "logical_inconsistency",
     "business_logic_violation", "order_count_mismatch"}

\* Line 505.
is_critical(an_issue) ==
    an_issue.type \in critical_types \/ an_issue.severity = "high"

\* Lines 494-496: the count kept per issue type.
issues_by_type(issues) ==
    [t \in {issues[k].type : k \in 1..Len(issues)} |->
        Cardinality({k \in 1..Len(issues) : issues[k].type = t})]

\* Lines 484-510: the summary (total_records and date_range describe the
\* dataframe and the constructor arguments only).
compile_summary(issues) ==
    [total_issues    |-> Len(issues),
     issues_by_type  |-> issues_by_type(issues),
     critical_issues |-> SelectSeq(issues, is_critical),
     all_issues      |-> issues]

ValidationLevels == {"full", "basic", "critical_only", "strict"}

\* A validator constructed with any level; nothing else in the process.
InitValidator ==
    /\ pc = "validator"
    /\ validation_level \in ValidationLevels
    /\ method_idx = 0
    /\ all_issues = <<>>
    /\ validation_log = <<>>
    /\ summary = None
    /\ sql_file = None
    /\ context_file = None
    /\ Constructed
    /\ NoDirectCall
    /\ NoMain
    /\ NoFramework

\* run_validation, lines 443-449: the header and the empty list.
run_validation_start ==
    /\ pc = "validator"
    /\ pc' = "validating"
    /\ all_issues' = <<>>
    /\ method_idx' = 0
    /\ validation_log' = <<>>
    /\ UNCHANGED <<validation_level, summary, framework_vars, analyzer_vars, process_vars>>

\* Lines 467-481: one iteration (the "Running ..." line, then "Found n
\* issues" or "Error: ...").
run_validation_check ==
    /\ pc = "validating"
    /\ method_idx < Len(validation_methods(validation_level))
    /\ LET check_name == validation_methods(validation_level)[method_idx + 1] IN
       \E outcome \in Outcomes(check_name) :
          /\ all_issues' = run_check(all_issues, check_name, outcome)
          /\ validation_log' = Append(validation_log,
                 [check |-> check_name, raised |-> outcome.raised,
                  found |-> Len(outcome.issues)])
    /\ method_idx' = method_idx + 1
    /\ UNCHANGED <<pc, validation_level, summary, framework_vars, analyzer_vars, process_vars>>

\* Lines 483-510: the summary is compiled and returned.
run_validation_return ==
    /\ pc = "validating"
    /\ method_idx = Len(validation_methods(validation_level))
    /\ summary' = compile_summary(all_issues)
    /\ pc' = "validated"
    /\ UNCHANGED <<validation_level, method_idx, all_issues, validation_log,
                   framework_vars, analyzer_vars, process_vars>>

NextValidator ==
    \/ run_validation_start
    \/ run_validation_check
    \/ run_validation_return

SpecValidator == InitValidator /\ [][NextValidator]_vars

---------------------------------------------------------------------------
(* query_verification_script.py: QueryVerificationFramework                *)

\* str.replace(old, new), lines 860-864.
RECURSIVE str_replace(_, _, _)
str_replace(s, old, new) ==
    LET p == Find(s, 1, old)
    IN  IF p = 0 THEN s
        ELSE SubSeq(s, 1, p - 1) \o new
                 \o str_replace(SubSeq(s, p + Len(old), Len(s)), old, new)

\* generate_test_date_ranges, lines 793-848, with the default base_date
\* "2024-10-01": the six QueryParameters, in order.
generate_test_date_ranges ==
    <<[start_date |-> <<"2","0","2","4","-","1","0","-","0","1">>, end_date |-> <<"2","0","2","4","-","1","0","-","0","1">>,
       description |-> "Single day test"],
      [start_date |-> <<"2","0","2","4","-","1","0","-","0","1">>, end_date |-> <<"2","0","2","4","-","1","0","-","0","7">>,
       description |-> "Week-long period test"],
      [start_date |-> <<"2","0","2","4","-","1","0","-","0","1">>, end_date |-> <<"2","0","2","4","-","1","0","-","3","0">>,
       description |-> "Month-long period test"],
      [start_date |-> <<"2","0","2","4","-","0","9","-","2","8">>, end_date |-> <<"2","0","2","4","-","1","0","-","0","5">>,
       description |-> "Cross-month boundary test"],
      [start_date |-> <<"2","0","2","4","-","1","0","-","0","5">>, end_date |-> <<"2","0","2","4","-","1","0","-","0","6">>,
       description |-> "Weekend period test"],
      [start_date |-> <<"2","0","2","4","-","1","0","-","0","7">>, end_date |-> <<"2","0","2","4","-","1","0","-","1","1">>,
       description |-> "Business week test"]>>

\* (end_date - start_date).days + 1 of lines 732-734 and 654-656, for
\* "%Y-%m-%d" dates of the year 2024.
days_of(params) ==
    LET digits == <<"0","1","2","3","4","5","6","7","8","9">>
        value(c) == (CHOOSE d \in 1..10 : digits[d] = c) - 1
        number(s, p) == 10 * value(s[p]) + value(s[p + 1])
        before == <<0, 31, 60, 91, 121, 152, 182, 213, 244, 274, 305, 335>>
        ordinal(s) == before[number(s, 6)] + number(s, 9)
    IN  ordinal(params.end_date) - ordinal(params.start_date) + 1

\* _estimate_row_count, lines 730-739.
_estimate_row_count(params) ==
    LET base_groups == 3 * 6
        days == days_of(params)
    IN  base_groups * (IF days < 30 THEN days ELSE 30)

\* _estimate_execution_time, lines 644-667, for a query whose
\* complexity_score is 0 (none of the constructs counted at lines 269-274),
\* so that base_time * time_factor is 0.0; h is hash(params.description).
_estimate_execution_time(params, h) ==
    LET variability == h % 5
    IN  0 + variability + 5

\* _check_db_connection, lines 319-325.
_check_db_connection(db_config) ==
    \/ db_config.connection_string
    \/ /\ db_config.host
       /\ db_config.database
       /\ db_config.username
       /\ db_config.password

\* _execute_query_safely, lines 327-389: the simulation fills in row_count
\* and execution_time_seconds; with a connection only the elapsed time is set.
_execute_query_safely(params, has_db, h, elapsed) ==
    IF ~has_db
    THEN [parameters |-> params, execution_success |-> TRUE,
          row_count |-> <<_estimate_row_count(params)>>,
          execution_time_seconds |-> <<_estimate_execution_time(params, h)>>,
          errors |-> <<>>]
    ELSE [parameters |-> params, execution_success |-> TRUE,
          row_count |-> None,
          execution_time_seconds |-> <<elapsed>>,
          errors |-> <<>>]

\* execute_query_verification, lines 850-886, with the check
\* "date_parameters_replaced" of _analyze_query_structure, line 896.
execute_query_verification(query, params, has_db, h, elapsed) ==
    LET parameterized_query ==
            str_replace(str_replace(query, <<"{","{","s","t","a","r","t","_","d","a","t","e","}","}">>, params.start_date),
                        <<"{","{","e","n","d","_","d","a","t","e","}","}">>, params.end_date)
        date_parameters_replaced ==
            /\ ~Contains(parameterized_query, <<"{","{","s","t","a","r","t","_","d","a","t","e","}","}">>)
            /\ ~Contains(parameterized_query, <<"{","{","e","n","d","_","d","a","t","e","}","}">>)
    IN  IF ~date_parameters_replaced
        THEN [parameters |-> params, execution_success |-> FALSE,
              row_count |-> None, execution_time_seconds |-> None,
              errors |-> <<"Date parameters not properly replaced in query">>]
        ELSE _execute_query_safely(params, has_db, h, elapsed)

MaxSuiteCalls == 2

\* What surrounds a framework: the file at sql_file_path (absent, empty, or
\* a query with or without the date placeholders), the database settings
\* (which of them are set), the hash of each scenario's description in this
\* process, and the time one execution with a connection takes.
Environments ==
    [sql : {[exists |-> FALSE, text |-> <<>>]}
               \cup [exists : {TRUE},
                     text : {<<>>, <<"S","E","L","E","C","T"," ","1">>,
                             <<"W","H","E","R","E"," ","d"," ",">","="," ","'","{","{","s","t","a","r","t","_","d","a","t","e","}","}","'"," ","A","N","D"," ","d"," ","<"," ","'","{","{","e","n","d","_","d","a","t","e","}","}","'">>,
                             <<"{","{","s","t","a","r","t","_","d","a","t","e","}","}","{","{","s","t","a","r","t","_","d","a","t","e","}","}","{","{","{","e","n","d","_","d","a","t","e","}","}","}">>}],
     db : {[connection_string |-> c, host |-> h, database |-> p, username |-> p,
            password |-> p] : c \in BOOLEAN, h \in BOOLEAN, p \in BOOLEAN},
     hash : {[k \in 1..6 |-> 0], [k \in 1..6 |-> 7 * k], [k \in 1..6 |-> 4]},
     elapsed : {0, 1}]

\* The constructor has been entered: sql_file_path and db_config are set.
InitFramework ==
    /\ pc = "framework_new"
    /\ environment \in Environments
    /\ query_content = None
    /\ logger = FALSE
    /\ has_db_connection = FALSE
    /\ verification_results = <<>>
    /\ scenario_idx = 0
    /\ suite_calls = 0
    /\ comparison = [kind |-> "none"]
    /\ sql_file = None
    /\ context_file = None
    /\ Constructed
    /\ NoDirectCall
    /\ NoMain
    /\ NoValidator

\* __init__, line 139, and _load_query, lines 784-791: the except branch
\* uses self.logger.
_load_query ==
    /\ pc = "framework_new"
    /\ IF environment.sql.exists
       THEN /\ query_content' = environment.sql.text
            /\ pc' = "framework_loaded"
       ELSE IF logger
            THEN /\ query_content' = <<>>
                 /\ pc' = "framework_loaded"
            ELSE /\ pc' = "raised AttributeError"
                 /\ UNCHANGED query_content
    /\ UNCHANGED <<environment, logger, has_db_connection, verification_results,
                   scenario_idx, suite_calls, comparison,
                   validator_vars, analyzer_vars, process_vars>>

\* __init__, lines 140-159: the rest of the constructor; query_analysis is
\* {} for an empty query_content (lines 264-265) and line 157 reads its
\* 'complexity_score'.
framework_init ==
    /\ pc = "framework_loaded"
    /\ verification_results' = <<>>
    /\ has_db_connection' = _check_db_connection(environment.db)
    /\ logger' = TRUE
    /\ pc' = IF query_content = <<>> THEN "raised KeyError" ELSE "framework"
    /\ UNCHANGED <<environment, query_content, scenario_idx, suite_calls, comparison,
                   validator_vars, analyzer_vars, process_vars>>

\* run_verification_suite, lines 1016-1025: the scenarios are generated.
run_verification_suite_start ==
    /\ pc = "framework"
    /\ suite_calls < MaxSuiteCalls
    /\ pc' = "suite"
    /\ scenario_idx' = 0
    /\ UNCHANGED <<environment, query_content, logger, has_db_connection,
                   verification_results, suite_calls, comparison,
                   validator_vars, analyzer_vars, process_vars>>

\* Lines 1027-1035: one scenario is executed and its result appended.
run_verification_suite_scenario ==
    /\ pc = "suite"
    /\ scenario_idx < Len(generate_test_date_ranges)
    /\ LET scenario == generate_test_date_ranges[scenario_idx + 1]
           result == execute_query_verification(query_content, scenario,
                         has_db_connection, environment.hash[scenario_idx + 1],
                         environment.elapsed)
       IN  verification_results' = Append(verification_results, result)
    /\ scenario_idx' = scenario_idx + 1
    /\ UNCHANGED <<pc, environment, query_content, logger, has_db_connection,
                   suite_calls, comparison,
                   validator_vars, analyzer_vars, process_vars>>

\* Lines 1037-1038: self.verification_results is returned.
run_verification_suite_return ==
    /\ pc = "suite"
    /\ scenario_idx = Len(generate_test_date_ranges)
    /\ pc' = "framework"
    /\ suite_calls' = suite_calls + 1
    /\ UNCHANGED <<environment, query_content, logger, has_db_connection,
                   verification_results, scenario_idx, comparison,
                   validator_vars, analyzer_vars, process_vars>>

\* compare_results_across_periods, lines 1040-1075: min, max and sum over
\* the successful results raise TypeError on a row_count of None.
compare_results_across_periods ==
    /\ pc = "framework"
    /\ LET successful_results ==
               SelectSeq(verification_results, LAMBDA r : r.execution_success)
           rows == {successful_results[k].row_count[1] : k \in 1..Len(successful_results)}
       IN  IF verification_results = <<>> \/ successful_results = <<>>
           THEN /\ comparison' = [kind |-> "error"]
                /\ UNCHANGED pc
           ELSE IF \E k \in 1..Len(successful_results) :
                       successful_results[k].row_count = None
           THEN /\ pc' = "raised TypeError"
                /\ UNCHANGED comparison
           ELSE /\ comparison' =
                       [kind |-> "comparison",
                        total_scenarios_tested |-> Len(verification_results),
                        successful_executions |-> Len(successful_results),
                        failed_executions |->
                            Len(verification_results) - Len(successful_results),
                        min_rows |-> CHOOSE x \in rows : \A y \in rows : x <= y,
                        max_rows |-> CHOOSE x \in rows : \A y \in rows : x >= y]
                /\ UNCHANGED pc
    /\ UNCHANGED <<environment, query_content, logger, has_db_connection,
                   verification_results, scenario_idx, suite_calls,
                   validator_vars, analyzer_vars, process_vars>>

\* generate_verification_report, lines 1201-1289: it calls
\* compare_results_across_periods and formats each successful result's
\* row_count with ':,'.
generate_verification_report ==
    /\ pc = "framework"
    /\ IF verification_results = <<>>
       THEN /\ comparison' = [kind |-> "message"]
            /\ UNCHANGED pc
       ELSE IF \E k \in 1..Len(verification_results) :
                   /\ verification_results[k].execution_success
                   /\ verification_results[k].row_count = None
       THEN /\ pc' = "raised TypeError"
            /\ UNCHANGED comparison
       ELSE /\ comparison' = [kind |-> "report",
                              total_scenarios |-> Len(verification_results)]
            /\ UNCHANGED pc
    /\ UNCHANGED <<environment, query_content, logger, has_db_connection,
                   verification_results, scenario_idx, suite_calls,
                   validator_vars, analyzer_vars, process_vars>>

NextFramework ==
    \/ _load_query
    \/ framework_init
    \/ run_verification_suite_start
    \/ run_verification_suite_scenario
    \/ run_verification_suite_return
    \/ compare_results_across_periods
    \/ generate_verification_report

SpecFramework == InitFramework /\ [][NextFramework]_vars

---------------------------------------------------------------------------
(* Properties                                                              *)

Parsed == pc \in {"parsed", "analyzed"}
Analyzed == pc = "analyzed"
JoinIndex == 1..Len(joins)

\* The size category and the CTE flag registered for the tables of a join.
LeftInfo(k) == tables[joins[k].left_table]
RightInfo(k) == tables[joins[k].right_table]
Swapped(k) ==
    joins[k].right_table \o <<" ">> \o joins[k].join_type \o <<" ">> \o joins[k].left_table

\* The 0-based line the forward scan of the k-th join starts on.
ScanStart(k) == right_table_source(lines, joins[k].line_number).table_line_idx

Skippable(line) == line = <<>> \/ startswith(line, <<"-","-">>)

\* The forward scan from line start meets an ON line inside its window
\* before a line that starts a new clause.
OnResolved(lns, start) ==
    \E k \in (start + 1)..Min({Len(lns), start + ScanWindow}) :
        /\ on_clause(strip(lns[k]))
        /\ \A j \in (start + 1)..(k - 1) :
              \/ Skippable(strip(lns[j]))
              \/ ~on_clause(strip(lns[j])) /\ ~major_clause(strip(lns[j]))

C1Text ==
    join_str(<<"\n">>, << <<"F","R","O","M"," ","s","m","a","l","l","_","r","e","f","_","t","a","b","l","e"," ","s">>, <<"J","O","I","N"," ","b","i","g","_","f","a","c","t","_","t","a","b","l","e"," ","f"," ","O","N"," ","s",".","i","d"," ","="," ","f",".","i","d">> >>)

\* C1: on the two-line text 'FROM small_ref_table s' / 'JOIN big_fact_table f
\* ON s.id = f.id' with no context hints, the analysis yields exactly one
\* JoinClause (small_ref_table, big_fact_table, condition 's.id = f.id'), the
\* left table is small, the right table is large and the one recommendation
\* has priority high.
C1_EndToEnd ==
    (sql_file = C1Text /\ table_context_info = EmptyMap /\ Analyzed /\ parses = 1) =>
        /\ Len(joins) = 1
        /\ joins[1].left_table = <<"s","m","a","l","l","_","r","e","f","_","t","a","b","l","e">>
        /\ joins[1].right_table = <<"b","i","g","_","f","a","c","t","_","t","a","b","l","e">>
        /\ joins[1].join_condition = <<"s",".","i","d"," ","="," ","f",".","i","d">>
        /\ tables[<<"s","m","a","l","l","_","r","e","f","_","t","a","b","l","e">>].size_category = "small"
        /\ tables[<<"b","i","g","_","f","a","c","t","_","t","a","b","l","e">>].size_category = "large"
        /\ Len(recommendations) = 1
        /\ recommendations[1].priority = "high"

\* C2: a join for which the forward scan resolves no ON clause has the
\* condition 'Not found', and its recommendation has priority critical,
\* whatever the sizes and CTE flags of its tables.
C2_NoOnClauseIsCritical ==
    Analyzed =>
        \A k \in JoinIndex :
            ~OnResolved(lines, ScanStart(k)) =>
                /\ joins[k].join_condition = NotFound
                /\ recommendations[k].priority = "critical"

\* A join whose ON line lies just beyond the scan window, and for which a
\* size-based branch fired as well.
C2_Witness ==
    /\ Analyzed
    /\ \E k \in JoinIndex :
          /\ ~OnResolved(lines, ScanStart(k))
          /\ ScanStart(k) + ScanWindow + 1 <= Len(lines)
          /\ on_clause(strip(lines[ScanStart(k) + ScanWindow + 1]))
          /\ size_branch(LeftInfo(k), RightInfo(k)) = "high"
          /\ recommendations[k].priority = "critical"

SmallLargePhysical(k) ==
    /\ LeftInfo(k).size_category = "small"
    /\ RightInfo(k).size_category = "large"
    /\ ~LeftInfo(k).is_cte
    /\ ~RightInfo(k).is_cte

\* C3 as stated: left small, right large, both not CTEs gives priority high
\* and the swapped order for every join condition, 'Not found' included.
C3_Original ==
    Analyzed =>
        \A k \in JoinIndex :
            SmallLargePhysical(k) =>
                /\ recommendations[k].priority = "high"
                /\ recommendations[k].suggested_order = Swapped(k)

\* C3 (amended): left small, right large, both not CTEs gives the swapped
\* order for every join condition, and priority high when a join condition
\* was found; when the condition is 'Not found' the priority is critical.
C3_SmallLargeSwap ==
    Analyzed =>
        \A k \in JoinIndex :
            SmallLargePhysical(k) =>
                /\ recommendations[k].suggested_order = Swapped(k)
                /\ recommendations[k].priority =
                      IF joins[k].join_condition = NotFound THEN "critical" ELSE "high"

C3_Witness ==
    /\ Analyzed
    /\ \E k \in JoinIndex :
          /\ SmallLargePhysical(k)
          /\ joins[k].join_condition # NotFound
          /\ recommendations[k].priority = "high"
          /\ recommendations[k].suggested_order = Swapped(k)

AdjProfitFact(k) ==
    /\ joins[k].left_table = <<"a","d","j">>
    /\ joins[k].right_table = <<"o","r","d","e","r","_","c","o","n","t","r","i","b","u","t","i","o","n","_","p","r","o","f","i","t","_","f","a","c","t">>
    /\ LeftInfo(k).size_category = "derived"
    /\ RightInfo(k).size_category = "large"

NoHintsCategories ==
    table_context_info = EmptyMap =>
        /\ categorize_table_size(<<"a","d","j">>) = "derived"
        /\ categorize_table_size(<<"o","r","d","e","r","_","c","o","n","t","r","i","b","u","t","i","o","n","_","p","r","o","f","i","t","_","f","a","c","t">>) = "large"

\* C4 as stated: with no context hints 'adj' is derived and
\* 'order_contribution_profit_fact' is large, and every join of the two,
\* registered so, gets priority info.
C4_Original ==
    /\ NoHintsCategories
    /\ Analyzed =>
          \A k \in JoinIndex : AdjProfitFact(k) => recommendations[k].priority = "info"

\* C4 (amended): with no context hints 'adj' is derived and
\* 'order_contribution_profit_fact' is large, and every join of the two,
\* registered so, gets priority info when a join condition was found and
\* critical when the condition is 'Not found'.
C4_DerivedLargeInfo ==
    /\ NoHintsCategories
    /\ Analyzed =>
          \A k \in JoinIndex :
              AdjProfitFact(k) =>
                  recommendations[k].priority =
                      IF joins[k].join_condition = NotFound THEN "critical" ELSE "info"

C4_Witness ==
    /\ Analyzed
    /\ table_context_info = EmptyMap
    /\ \E k \in JoinIndex :
          /\ AdjProfitFact(k)
          /\ joins[k].join_condition # NotFound
          /\ recommendations[k].priority = "info"

SixJoinTypes ==
    { <<"J","O","I","N">>, <<"L","E","F","T"," ","J","O","I","N">>, <<"R","I","G","H","T"," ","J","O","I","N">>, <<"I","N","N","E","R"," ","J","O","I","N">>, <<"F","U","L","L"," ","J","O","I","N">>, <<"C","R","O","S","S"," ","J","O","I","N">> }

\* C5: the join_type of every JoinClause is one of the six keywords JOIN,
\* LEFT JOIN, RIGHT JOIN, INNER JOIN, FULL JOIN, CROSS JOIN, in upper case
\* with a single space, however the line spelled it.
C5_JoinTypeNormalized == \A k \in JoinIndex : joins[k].join_type \in SixJoinTypes

\* C6: for a reference [schema.]Name, [schema.]Name alias or [schema.]Name AS
\* alias, in any letter case and with whitespace around it,
\* extract_table_name returns the lowercased Name, which holds no dot and no
\* whitespace.
C6_ExtractTableName ==
    pc = "returned" =>
        /\ table_name = lower(table_reference.name)
        /\ \A k \in 1..Len(table_name) : table_name[k] \notin WS \cup {"."}

C6_Witness ==
    /\ pc = "returned"
    /\ table_reference.schema = <<"O","D","S",".">>
    /\ table_reference.name = <<"O","r","d","e","r","s">>
    /\ table_reference.alias = <<" "," ","A","S"," ","o">>
    /\ table_name = <<"o","r","d","e","r","s">>

\* C7: a table name once in the table map keeps its TableInfo whatever is
\* registered later, and every name maps to the one TableInfo of that name.
C7_RegistrationIdempotent ==
    /\ [](\A n \in DOMAIN tables : tables[n].name = n)
    /\ [][\A n \in DOMAIN tables : n \in DOMAIN tables' /\ tables'[n] = tables[n]]_vars

\* A table that was met again as a right table under another reference than
\* the one it is registered with.
C7_Witness ==
    /\ Parsed
    /\ \E k \in JoinIndex :
          RightInfo(k).full_name #
              right_table_source(lines, joins[k].line_number).right_table_part

\* C8: after parse_joins both tables of every JoinClause are in the table
\* map, and analyze_join_order returns one recommendation per JoinClause, in
\* the order of joins, carrying its line number, join type and tables.
C8_OneRecommendationPerJoin ==
    /\ Parsed =>
          \A k \in JoinIndex :
              joins[k].left_table \in DOMAIN tables /\ joins[k].right_table \in DOMAIN tables
    /\ Analyzed =>
          /\ Len(recommendations) = Len(joins)
          /\ \A k \in JoinIndex :
                /\ recommendations[k].line_number = joins[k].line_number
                /\ recommendations[k].join_type = joins[k].join_type
                /\ recommendations[k].left_table = joins[k].left_table
                /\ recommendations[k].right_table = joins[k].right_table

C8_Witness ==
    /\ Analyzed
    /\ Len(joins) >= 2
    /\ Len(recommendations) = Len(joins)
    /\ \E k \in JoinIndex : joins[k].left_table = <<"u","n","k","n","o","w","n">>

\* C9: after one parse_joins call the line numbers of joins increase
\* strictly, and each is the number of a line that matches the JOIN pattern.
C9_JoinsFollowLines ==
    (Parsed /\ parses = 1) =>
        /\ \A k \in JoinIndex :
              /\ joins[k].line_number \in 1..Len(lines)
              /\ join_pattern_search(lines[joins[k].line_number]).matched
        /\ \A k1, k2 \in JoinIndex :
              k1 < k2 => joins[k1].line_number < joins[k2].line_number

\* Two joins, the first with its table on the line after the JOIN keyword.
C9_Witness ==
    /\ Parsed
    /\ parses = 1
    /\ Len(joins) = 2
    /\ right_table_source(lines, joins[1].line_number).table_line_idx
          = joins[1].line_number + 1

\* C10: a table whose name has a size hint in the context document is
\* registered with that hint as its size category, wherever and however the
\* SQL text refers to it.
C10_ContextHintFirst ==
    \A n \in DOMAIN tables :
        context_size_hint(n) # "" => tables[n].size_category = context_size_hint(n)

\* A JOIN line with nothing after the keyword and no table reference on the
\* line that follows it.
NoTableReference(lns, n) ==
    /\ join_pattern_search(lns[n]).matched
    /\ strip(join_pattern_search(lns[n]).group2) = <<>>
    /\ \/ n = Len(lns)
       \/ strip(lns[n + 1]) = <<>>
       \/ startswith(strip(lns[n + 1]), <<"O","N">>)

Uninterpretable(lns, n) ==
    ~join_pattern_search(lns[n]).matched \/ NoTableReference(lns, n)

Printed(message) == \E k \in 1..Len(stdout) : stdout[k] = message

\* What an empty context document leaves in table_context_info.
EmptyDocumentInfo == _parse_context_info(EmptyMap, <<>>)

\* C12: when the SQL file is missing the process ends with exit status 1 and
\* nothing was parsed (by the check of main or by load_files); when only the
\* context file is missing load_files prints a warning and the run goes on,
\* and from load_files on context_content and table_context_info are what a
\* run with an empty context document has, which is all that parse_joins and
\* analyze_join_order read of the context.
C12_FileLoading ==
    /\ []((files.sql = "missing" /\ pc \notin {"main", "constructed"}) =>
            /\ pc = "exited"
            /\ exit_status = "1"
            /\ parses = 0 /\ lines = <<>> /\ joins = <<>> /\ tables = EmptyMap)
    /\ [][(pc = "constructed" /\ files.sql = "present" /\ files.context = "missing") =>
            /\ pc' = "loaded"
            /\ exit_status' = "running"
            /\ stdout' = Append(stdout, "Warning: Context file not found")]_vars
    /\ []((files.sql = "present" /\ pc \notin {"main", "constructed"}
             /\ (files.context = "missing" \/ context_file = <<>>)) =>
            /\ context_content = <<>>
            /\ table_context_info = EmptyDocumentInfo)

\* A run without the context file that went on to its recommendations.
C12_Witness ==
    /\ pc = "exited"
    /\ exit_status = "0"
    /\ files.context = "missing"
    /\ context_file # <<>>
    /\ Printed("Warning: Context file not found")
    /\ joins # <<>>
    /\ Len(recommendations) = Len(joins)

\* C13: in main an exception raised inside the try is handled by printing the
\* error and ending the process with exit status 1, with no other change; a
\* process that has ended takes no further step (no retry); and a run in text
\* mode to stdout that ended with status 1 has printed no report text.
C13_ExceptionExitsOne ==
    /\ [][(pc = "raised" /\ args.format # "none") =>
            /\ pc' = "exited"
            /\ exit_status' = "1"
            /\ stdout' = Append(stdout, "Error during analysis")
            /\ <<joins, tables, recommendations, parses>>' =
                   <<joins, tables, recommendations, parses>>]_vars
    /\ [][pc # "exited"]_vars
    /\ []((pc = "exited" /\ exit_status = "1" /\ args.format = "text" /\ ~args.output) =>
            ~Printed("report"))

\* A run of main in text mode to stdout whose SQL file could not be read.
C13_Witness ==
    /\ pc = "exited"
    /\ exit_status = "1"
    /\ args = [format |-> "text", output |-> FALSE]
    /\ files.sql = "unreadable"
    /\ Printed("Error during analysis")
    /\ ~Printed("report")


\* The reference the backward scan of _find_left_table stops on, as it is
\* written in the text (before extract_table_name), for a scan that starts on
\* line k; 'unknown' when the scan finds none.
RECURSIVE left_reference_written(_, _)
left_reference_written(lns, k) ==
    IF k < 1 THEN <<"u","n","k","n","o","w","n">>
    ELSE
    LET line == strip(lns[k])
        next_line == IF k + 1 <= Len(lns) THEN strip(lns[k + 1]) ELSE None
        prev_line == IF k > 1 THEN strip(lns[k - 1]) ELSE None
    IN  IF Skippable(line) THEN left_reference_written(lns, k - 1)
        ELSE IF from_alone(line) /\ k + 1 <= Len(lns) /\ ~Skippable(next_line)
             THEN next_line
        ELSE IF from_table_search(line) # None THEN from_table_search(line)
        ELSE IF join_table_search(line) # None THEN join_table_search(line)
        ELSE IF /\ table_line_match(line) # None
                /\ k > 1
                /\ (ends_with_kw(prev_line, <<"J","O","I","N">>) \/ ends_with_kw(prev_line, <<"F","R","O","M">>))
             THEN table_line_match(line)
        ELSE IF starts_with_any(line, left_scan_stop_words) THEN <<"u","n","k","n","o","w","n">>
        ELSE left_reference_written(lns, k - 1)

\* The table token of a reference: its text up to the first whitespace.
table_token(reference) ==
    SubSeq(strip(reference), 1, RunEndNot(strip(reference), 1, WS))

Qualified(reference) == Contains(table_token(reference), <<".">>)

\* The pass of the parse_joins loop over line i + 1 appends a JoinClause.
JoinPass == pc = "parsing" /\ i < Len(lines) /\ is_join_line(lines, i + 1)

\* C14: a TableInfo that parse_joins creates has is_cte true exactly when the
\* table token written after FROM/JOIN has no schema-qualifying dot: a
\* schema-qualified left table gets is_cte false, and an unqualified right
\* table gets is_cte true also when its JOIN line carries an ON condition
\* with dotted column references.
C14_IsCteIffUnqualified ==
    [][JoinPass =>
        LET n == i + 1
            left == joins'[Len(joins')].left_table
            right == joins'[Len(joins')].right_table
            left_written == left_reference_written(lines, n - 1)
            right_written == right_table_source(lines, n).right_table_part
        IN  /\ (left \notin DOMAIN tables /\ left_written # <<"u","n","k","n","o","w","n">>) =>
                (tables'[left].is_cte <=> ~Qualified(left_written))
            /\ (right \notin DOMAIN tables /\ right # left) =>
                (tables'[right].is_cte <=> ~Qualified(right_written))]_vars

\* C15: with no context hints, every table registered under a name of the
\* fixed set of CTE aliases has size_category 'derived', as a left table and
\* as the right table of a JOIN line that carries an alias or an ON condition.
C15_CteAliasIsDerived ==
    table_context_info = EmptyMap =>
        \A name \in DOMAIN tables :
            name \in cte_aliases => tables[name].size_category = "derived"

\* The first line after line n that is not blank, or 0 when there is none.
next_non_empty(lns, n) ==
    LET later == {k \in (n + 1)..Len(lns) : strip(lns[k]) # <<>>}
    IN  IF later = {} THEN 0 ELSE Min(later)

\* A JOIN keyword with nothing after it on line n.
BareJoin(lns, n) ==
    /\ cte_pattern_search(lns[n]) = None
    /\ join_pattern_search(lns[n]).matched
    /\ strip(join_pattern_search(lns[n]).group2) = <<>>

\* C16: when a JOIN keyword line has an empty remainder, the next non-empty
\* line, blank lines in between skipped, is the right-side table reference,
\* provided it does not start with ON in any letter case, and the line gives a
\* JoinClause; the JOIN line is skipped only if there is no such line.
C16_NextNonEmptyLineIsTable ==
    [][(pc = "parsing" /\ i < Len(lines) /\ BareJoin(lines, i + 1)) =>
        LET n == i + 1
            m == next_non_empty(lines, n)
            usable == m # 0 /\ ~startswith(upper(strip(lines[m])), <<"O","N">>)
        IN  IF usable
            THEN /\ Len(joins') = Len(joins) + 1
                 /\ joins'[Len(joins')].line_number = n
                 /\ joins'[Len(joins')].right_table = extract_table_name(strip(lines[m]))
            ELSE joins' = joins]_vars

\* Line k starts with SELECT, WITH or a closing parenthesis.
BoundaryLine(lns, k) ==
    /\ ~Skippable(strip(lns[k]))
    /\ starts_with_any(strip(lns[k]), left_scan_stop_words)

\* The tables that line k alone offers to the backward scan: the table of a
\* FROM or JOIN clause on it, or the line itself as a table line after a line
\* ending in FROM or JOIN (and the next line, for FROM alone on line k).
TablesOffered(lns, k) ==
    LET line == strip(lns[k])
    IN  IF Skippable(line) THEN {}
        ELSE {extract_table_name(strip(lns[k + 1])) :
                  x \in {x \in {1} : from_alone(line) /\ k < Len(lns)
                                       /\ ~Skippable(strip(lns[k + 1]))}}
             \cup {extract_table_name(r) : r \in {from_table_search(line)} \ {None}}
             \cup {extract_table_name(r) : r \in {join_table_search(line)} \ {None}}
             \cup {extract_table_name(r) :
                      r \in {r \in {table_line_match(line)} \ {None} :
                                /\ k > 1
                                /\ \/ ends_with_kw(strip(lns[k - 1]), <<"J","O","I","N">>)
                                   \/ ends_with_kw(strip(lns[k - 1]), <<"F","R","O","M">>)}}

\* The backward scan from the JOIN line n reaches the boundary line b: no
\* line in between is a boundary line or offers a table.
ReachesBoundary(lns, n, b) ==
    /\ b \in 1..(n - 1)
    /\ BoundaryLine(lns, b)
    /\ \A k \in (b + 1)..(n - 1) : ~BoundaryLine(lns, k) /\ TablesOffered(lns, k) = {}

\* C17 as stated: a backward scan that reaches a boundary line gives
\* 'unknown', also when the boundary line itself holds a FROM or JOIN clause.
C17_Original ==
    [][JoinPass =>
        \A b \in 1..i :
            ReachesBoundary(lines, i + 1, b) =>
                joins'[Len(joins')].left_table = <<"u","n","k","n","o","w","n">>]_vars

\* C17: a backward scan that reaches a boundary line gives 'unknown' unless
\* the boundary line itself offers a table, and then gives a table that line
\* offers; it never gives a table of a line before the boundary line.
C17_BoundaryStopsScan ==
    [][JoinPass =>
        \A b \in 1..i :
            ReachesBoundary(lines, i + 1, b) =>
                IF TablesOffered(lines, b) = {}
                THEN joins'[Len(joins')].left_table = <<"u","n","k","n","o","w","n">>
                ELSE joins'[Len(joins')].left_table \in TablesOffered(lines, b)]_vars

\* A parse of 'FROM t' / 'SELECT x' / 'JOIN u': the FROM clause lies before
\* the boundary line and the left table is 'unknown'.
C17_Witness ==
    /\ pc = "parsed"
    /\ Len(lines) = 3
    /\ TablesOffered(lines, 1) = {<<"t">>}
    /\ ReachesBoundary(lines, 3, 2)
    /\ TablesOffered(lines, 2) = {}
    /\ Len(joins) = 1
    /\ joins[1].left_table = <<"u","n","k","n","o","w","n">>

\* The backward scan from the JOIN line n reaches line f, where FROM stands
\* alone, with its table on line m: no other line in between is a boundary
\* line or offers a table.
ReachesFromAlone(lns, n, f, m) ==
    /\ from_alone(strip(lns[f]))
    /\ f < m /\ m < n
    /\ \A k \in (f + 1)..(n - 1) :
          k # m => ~BoundaryLine(lns, k) /\ TablesOffered(lns, k) = {}

\* C18: when the backward scan reaches a line where FROM stands alone, the
\* left table is the bare name of the next non-blank line after it, also
\* when blank lines separate the two.
C18_FromAloneNextNonBlank ==
    [][JoinPass =>
        \A f \in 1..i :
            LET m == next_non_empty(lines, f)
            IN  ReachesFromAlone(lines, i + 1, f, m) =>
                    joins'[Len(joins')].left_table = extract_table_name(strip(lines[m]))]_vars

\* The condition text of the join on line n as the forward scan gathers it,
\* its lines joined by single spaces, before whitespace is collapsed.
Gathered(lns, n) ==
    LET start == right_table_source(lns, n).table_line_idx
    IN  strip(join_str(<<" ">>, scan_for_on(lns, start + 1,
                                         Min({Len(lns), start + ScanWindow}))))

GatheredCondition(k) == Gathered(lines, joins[k].line_number)

\* Every whitespace character of s is a space that has no whitespace next
\* to it.
SingleSpaced(s) ==
    \A p \in 1..Len(s) :
        s[p] \in WS => s[p] = " " /\ (p < Len(s) => s[p + 1] \notin WS)

NotWhitespace(c) == c \notin WS

\* The join_condition of a JoinClause is a non-empty string of at most 120
\* characters: 'Not found', or the gathered text with its whitespace
\* collapsed (single spaces only, nothing else changed), cut to its first 117
\* characters and '...' when the collapsed text is longer than 120.
ConditionShown(clause, text, collapsed) ==
    LET shown == clause.join_condition
    IN  /\ Len(shown) \in 1..120
        /\ IF text = <<>> THEN shown = <<"N","o","t"," ","f","o","u","n","d">>
           ELSE /\ SingleSpaced(collapsed)
                /\ SelectSeq(collapsed, NotWhitespace) = SelectSeq(text, NotWhitespace)
                /\ IF Len(collapsed) > 120
                   THEN shown = SubSeq(collapsed, 1, 117) \o <<".",".",".">>
                   ELSE shown = collapsed

\* C19: every JoinClause is created with a join_condition that is a
\* non-empty string of at most 120 characters: 'Not found', or the condition
\* text with its whitespace collapsed (no run of two or more whitespace
\* characters), and when the collapsed text is longer than 120 characters,
\* its first 117 characters followed by '...'; and no step changes the
\* join_condition of a JoinClause that exists.
C19_ConditionDisplay ==
    [][/\ Len(joins') >= Len(joins)
       /\ SubSeq(joins', 1, Len(joins)) = joins
       /\ Len(joins') <= Len(joins) + 1
       /\ Len(joins') = Len(joins) + 1 =>
              ConditionShown(joins'[Len(joins')],
                             Gathered(lines, i + 1),
                             collapse_whitespace(Gathered(lines, i + 1)))]_vars

\* A parsed join whose collapsed condition is longer than 120 characters.
C19_Witness ==
    /\ pc = "parsed"
    /\ \E k \in JoinIndex :
          /\ Len(collapse_whitespace(GatheredCondition(k))) > 120
          /\ Len(joins[k].join_condition) = 120
          /\ SubSeq(joins[k].join_condition, 118, 120) = <<".",".",".">>

\* The ON line the forward scan from line start resolves (see OnResolved).
ResolvedOnLine(lns, start) ==
    Min({k \in (start + 1)..Min({Len(lns), start + ScanWindow}) :
            on_clause(strip(lns[k]))})

\* C20: after the ON line, every following line that starts with AND, blank
\* and comment lines skipped, is part of the condition, however many there
\* are, up to the first other line: the condition text before truncation
\* holds the text of each of them.
C20_AllContinuationLines ==
    \A k \in JoinIndex :
        OnResolved(lines, ScanStart(k)) =>
            LET on_line == ResolvedOnLine(lines, ScanStart(k))
                and_lines == collect_continuation(lines, on_line + 1, Len(lines))
            IN  \A a \in 1..Len(and_lines) :
                    Contains(GatheredCondition(k), and_lines[a])

---------------------------------------------------------------------------
(* Properties of the recommendations                                       *)

\* The tables of the k-th join are physical (not CTEs) and of these sizes.
PhysicalSizes(k, left_sizes, right_size) ==
    /\ LeftInfo(k).size_category \in left_sizes
    /\ RightInfo(k).size_category = right_size
    /\ ~LeftInfo(k).is_cte
    /\ ~RightInfo(k).is_cte

DerivedLarge(k) ==
    LeftInfo(k).size_category = "derived" /\ RightInfo(k).size_category = "large"

MediumSmall(k) ==
    ~PhysicalSizes(k, {"medium", "small"}, "large") /\ PhysicalSizes(k, {"small"}, "medium")

\* The issue text and the suggested order the size rules give the k-th
\* join, as the analysis states them.
SizeIssue(k) ==
    IF PhysicalSizes(k, {"medium", "small"}, "large")
    THEN <<Lit("Large table ("), Txt(joins[k].right_table),
           Lit(") should typically be on the left side of JOIN for better performance")>>
    ELSE IF MediumSmall(k)
    THEN <<Lit("Medium table ("), Txt(joins[k].right_table),
           Lit(") should typically be on the left side when joining with small table for better performance")>>
    ELSE <<Lit("Consider the size of derived table ("), Txt(joins[k].left_table),
           Lit(") - if small, consider moving large table ("), Txt(joins[k].right_table),
           Lit(") to the left")>>

SizeOrder(k) ==
    IF PhysicalSizes(k, {"medium", "small"}, "large") \/ MediumSmall(k)
    THEN Swapped(k)
    ELSE <<"D","e","p","e","n","d","s"," ","o","n"," ","d","e","r","i","v","e","d"," ","t","a","b","l","e"," ","s","i","z","e",":"," ","p","o","s","s","i","b","l","y"," ">> \o Swapped(k)

SizeRuleFires(k) ==
    PhysicalSizes(k, {"medium", "small"}, "large") \/ MediumSmall(k) \/ DerivedLarge(k)

\* C21: when the join condition is 'Not found' and a size rule (high, medium
\* or info) fired for the same join, the issue text is the issue text of the
\* size rule followed by the Cartesian-product warning, the suggested order
\* is the one of the size rule, and the priority is critical.
C21_WarningAppended ==
    Analyzed =>
        \A k \in JoinIndex :
            (joins[k].join_condition = <<"N","o","t"," ","f","o","u","n","d">> /\ SizeRuleFires(k)) =>
                /\ recommendations[k].issue =
                      SizeIssue(k) \o
                      <<Lit(" WARNING: No JOIN condition found - potential Cartesian product!")>>
                /\ recommendations[k].suggested_order = SizeOrder(k)
                /\ recommendations[k].priority = "critical"

\* An analysis with a join without condition for which the medium rule
\* fired.
C21_Witness ==
    /\ Analyzed
    /\ \E k \in JoinIndex :
          /\ joins[k].join_condition = <<"N","o","t"," ","f","o","u","n","d">>
          /\ MediumSmall(k)
          /\ Len(recommendations[k].issue) = 4
          /\ recommendations[k].priority = "critical"

Priorities == {"low", "medium", "high", "critical", "info"}

\* C22: every recommendation has one of the five priorities; its priority is
\* low exactly when its issue is null, which is exactly when no size rule
\* fired and a join condition was found; and a recommendation of priority
\* high or medium has a suggested order.
C22_LowIffNoIssue ==
    Analyzed =>
        \A k \in 1..Len(recommendations) :
            /\ recommendations[k].priority \in Priorities
            /\ recommendations[k].priority = "low" <=> recommendations[k].issue = None
            /\ recommendations[k].issue = None <=>
                  (~SizeRuleFires(k) /\ joins[k].join_condition # <<"N","o","t"," ","f","o","u","n","d">>)
            /\ recommendations[k].priority \in {"high", "medium"} =>
                  recommendations[k].suggested_order # None

\* An analysis with a recommendation without issue, of priority low, for a
\* join onto a large table whose condition was found, next to a critical one.
C22_Witness ==
    /\ Analyzed
    /\ \E k \in 1..Len(recommendations) :
          /\ recommendations[k].issue = None
          /\ recommendations[k].priority = "low"
          /\ recommendations[k].suggested_order = None
          /\ RightInfo(k).size_category = "large"
          /\ joins[k].join_condition # <<"N","o","t"," ","f","o","u","n","d">>
    /\ \E k \in 1..Len(recommendations) : recommendations[k].priority = "critical"

\* C23: a JoinClause never takes its condition from an ON clause of a later
\* JOIN: when its condition is not 'Not found', no line that parse_joins
\* recognizes as a JOIN line (CROSS JOIN included) lies between its table
\* line and the ON line the condition was taken from.
C23_NoConditionOfLaterJoin ==
    Parsed =>
        \A k \in JoinIndex :
            joins[k].join_condition # <<"N","o","t"," ","f","o","u","n","d">> =>
                \A n \in (ScanStart(k) + 1)..(ResolvedOnLine(lines, ScanStart(k)) - 1) :
                    ~join_pattern_search(lines[n]).matched

\* C24: after any sequence of parse_joins calls on one analyzer over the
\* same text, joins holds exactly one JoinClause per recognized JOIN line:
\* no two records share a line number, and a repeated parse adds no second
\* record for a line already recorded.
C24_OneRecordPerLine ==
    Parsed =>
        /\ \A n \in 1..Len(lines) :
              is_join_line(lines, n) => \E k \in JoinIndex : joins[k].line_number = n
        /\ \A a, b \in JoinIndex : a # b => joins[a].line_number # joins[b].line_number

\* C25: export_to_csv leaves its input unchanged: when it has returned,
\* every recommendation has the keys, the join_condition and the lists of
\* optimization notes and index recommendations it had before the call, and
\* joins and tables are unchanged.
C25_CsvExportKeepsInput ==
    [][(pc = "analyzed" /\ args.format = "csv" /\ pc' = "exited") =>
        /\ Len(recommendations') = Len(recommendations)
        /\ \A k \in 1..Len(recommendations) :
              /\ DOMAIN recommendations'[k] = DOMAIN recommendations[k]
              /\ recommendations'[k].join_condition = recommendations[k].join_condition
              /\ recommendations'[k].optimization_notes =
                     recommendations[k].optimization_notes
              /\ recommendations'[k].index_recommendations =
                     recommendations[k].index_recommendations
        /\ joins' = joins
        /\ tables' = tables]_vars

---------------------------------------------------------------------------
(* Claims about DataQualityValidator.run_validation                        *)

\* The names of the checks run so far, in the order they ran.
checks_run == [k \in 1..Len(validation_log) |-> validation_log[k].check]

\* Whether `sub` is `seq` with some elements left out, the order kept.
RECURSIVE IsSubList(_, _)
IsSubList(sub, seq) ==
    IF sub = <<>> THEN TRUE
    ELSE IF seq = <<>> THEN FALSE
    ELSE IF Head(sub) = Head(seq) THEN IsSubList(Tail(sub), Tail(seq))
    ELSE IsSubList(sub, Tail(seq))

\* The checks that can report an issue of a critical type.
CriticalChecks ==
    {name \in {all_validation_methods[k] : k \in 1..Len(all_validation_methods)} :
        \E k \in 1..Len(method_of(name)) : method_of(name)[k].type \in critical_types}

\* What the constructor's documentation promises for each level.
DocumentedChecks(level, run) ==
    CASE level = "full" -> run = all_validation_methods
      [] level = "basic" -> run = <<"Date Range Validation", "Monetary Values Validation",
                                    "Aggregation Logic Validation">>
      [] level = "critical_only" ->
            \A k \in 1..Len(run) : run[k] \in CriticalChecks
      [] OTHER -> TRUE

\* C26: when run_validation has returned, the checks it ran are exactly the
\* ones its validation_level documents ('full': all seven; 'basic': date
\* range, monetary values and aggregation logic only; 'critical_only': only
\* checks for critical issues), in the fixed order of all_validation_methods.
C26_RunsDocumentedChecks ==
    pc = "validated" =>
        /\ DocumentedChecks(validation_level, checks_run)
        /\ IsSubList(checks_run, all_validation_methods)

RECURSIVE SumOver(_, _)
SumOver(f, keys) ==
    IF keys = {} THEN 0
    ELSE LET t == CHOOSE x \in keys : TRUE IN f[t] + SumOver(f, keys \ {t})

\* The number of 'validation_error' issues that name the check.
ErrorsNaming(check_name) ==
    Cardinality({k \in 1..Len(all_issues) :
        all_issues[k].type = "validation_error" /\ all_issues[k].check = check_name})

\* C27: a check that raises adds exactly one 'validation_error' issue naming
\* it (a check that returns adds none) and the run goes on: once the summary
\* is returned every selected check has run, total_issues is the length of
\* all_issues and the sum of the issues_by_type counts, and critical_issues
\* is a sub-list of all_issues.
C27_RaisingCheckIsRecorded ==
    /\ \A k \in 1..Len(validation_log) :
          ErrorsNaming(validation_log[k].check) = (IF validation_log[k].raised THEN 1 ELSE 0)
    /\ pc = "validated" =>
          /\ checks_run = validation_methods(validation_level)
          /\ summary.all_issues = all_issues
          /\ summary.total_issues = Len(summary.all_issues)
          /\ summary.total_issues =
                SumOver(summary.issues_by_type, DOMAIN summary.issues_by_type)
          /\ IsSubList(summary.critical_issues, summary.all_issues)

\* A run whose first check raised and whose later checks returned issues,
\* some critical and some not.
C27_Witness ==
    /\ pc = "validated"
    /\ validation_log[1].raised
    /\ \E k \in 2..Len(validation_log) : validation_log[k].found > 1
    /\ Len(summary.critical_issues) > 0
    /\ Len(summary.critical_issues) < summary.total_issues - 1

---------------------------------------------------------------------------
(* Claims about QueryVerificationFramework                                 *)

\* The parameters of the results held, in order.
ParametersOf(results) == [k \in 1..Len(results) |-> results[k].parameters]

\* C28: whenever run_verification_suite has returned (a first or a later
\* call), the list it returned holds one result per scenario of
\* generate_test_date_ranges, in scenario order, and a comparison made then
\* reports total_scenarios_tested equal to the number of scenarios and
\* successful_executions + failed_executions equal to that total.
C28_OneResultPerScenario ==
    (pc = "framework" /\ suite_calls >= 1) =>
        /\ ParametersOf(verification_results) = generate_test_date_ranges
        /\ comparison.kind = "comparison" =>
              /\ comparison.total_scenarios_tested = Len(generate_test_date_ranges)
              /\ comparison.successful_executions + comparison.failed_executions
                     = comparison.total_scenarios_tested

\* C29: every result with execution_success = true has a row_count and an
\* execution_time_seconds that are not None, with and without a database
\* connection, and neither compare_results_across_periods nor
\* generate_verification_report raises.
C29_SuccessHasRowCount ==
    /\ \A k \in 1..Len(verification_results) :
          verification_results[k].execution_success =>
              /\ verification_results[k].row_count # None
              /\ verification_results[k].execution_time_seconds # None
    /\ pc # "raised TypeError"

\* C30: constructing the framework on a path with no file does not raise:
\* _load_query finds the logger set, query_content is the empty string and
\* the construction completes.
C30_MissingFileConstructs ==
    ~environment.sql.exists =>
        /\ pc \notin {"raised AttributeError", "raised KeyError"}
        /\ pc = "framework_loaded" => (logger /\ query_content = <<>>)
====
